---------------------------- MODULE Spec2Model ----------------------------
(***************************************************************************)
(* Recurring events and their materialised occurrences                     *)
(* (events/models.py, events/admin.py), the TOTP second factor and its     *)
(* enforcement (mfa/models.py, mfa/forms.py, mfa/views.py,                 *)
(* mfa/middleware.py, mfa/signals.py, mfa/admin.py), and the receipt       *)
(* number of a donation (donations/models.py).                             *)
(*                                                                         *)
(* Dates are proleptic Gregorian ordinals, as datetime.date keeps them:    *)
(* date + timedelta(days=k) is ordinal + k, date(y, m, d) is ymd2ord and   *)
(* .year/.month/.day are ord2ymd.                                          *)
(***************************************************************************)
EXTENDS Integers, Sequences, FiniteSets, TLC

VARIABLES
    event,      \* events_event table: event id -> Event fields
    rows,       \* events_eventoccurrence table: set of rows (id is the pk)
    nextId,     \* next auto-increment pk of events_eventoccurrence
    call,       \* per request: the generate_occurrences call in progress
    edits,      \* number of admin forms submitted so far
    last,       \* history: the most recent completed operation
    profile,    \* mfa_usermfa: the row of the user
    now,        \* time.time(), whole seconds
    session,    \* the session store, per browser session
    resp,       \* history: the outcome of the most recent MFA operation
    accepted,   \* history: the codes accepted so far
    user,       \* auth_user: the row of the user
    hist,       \* history: what the sessions were shown, what was forced
    donations,  \* donations_donation table: set of rows (id is the pk)
    saving      \* per request: the Donation.save call in progress

mfaVars == <<profile, now, session, resp, accepted>>

vars == <<event, rows, nextId, call, edits, last,
          profile, now, session, resp, accepted,
          user, hist, donations, saving>>

-----------------------------------------------------------------------------
(* Bounds of the model *)

MaxId == 4          \* no new call starts once this many pks were handed out
MaxAdminId == 2     \* the same, where the admin's change forms are in use
MaxEdits == 1       \* admin forms submitted per behaviour

-----------------------------------------------------------------------------
(* datetime.date and calendar *)

None == -1

DAYS_IN_MONTH == <<31, 28, 31, 30, 31, 30, 31, 31, 30, 31, 30, 31>>
DAYS_BEFORE_MONTH == <<0, 31, 59, 90, 120, 151, 181, 212, 243, 273, 304, 334>>

isleap(y) == (y % 4 = 0) /\ ((y % 100 # 0) \/ (y % 400 = 0))

\* calendar.monthrange(year, month)[1]
monthrange(y, m) == IF m = 2 /\ isleap(y) THEN 29 ELSE DAYS_IN_MONTH[m]

days_before_year(y) ==
    ((y - 1) * 365) + ((y - 1) \div 4) - ((y - 1) \div 100) + ((y - 1) \div 400)

days_before_month(y, m) ==
    DAYS_BEFORE_MONTH[m] + (IF m > 2 /\ isleap(y) THEN 1 ELSE 0)

\* date(year, month, day)
ymd2ord(y, m, d) == days_before_year(y) + days_before_month(y, m) + d

\* date.year, date.month, date.day
ord2ymd(ord) ==
    LET n0   == ord - 1
        n400 == n0 \div 146097
        r400 == n0 % 146097
        n100 == r400 \div 36524
        r100 == r400 % 36524
        n4   == r100 \div 1461
        r4   == r100 % 1461
        n1   == r4 \div 365
        n    == r4 % 365
        year == (n400 * 400) + 1 + (n100 * 100) + (n4 * 4) + n1
        leap == (n1 = 3) /\ ((n4 # 24) \/ (n100 = 3))
        m0   == (n + 50) \div 32
        p0   == DAYS_BEFORE_MONTH[m0] + (IF m0 > 2 /\ leap THEN 1 ELSE 0)
        month == IF p0 > n THEN m0 - 1 ELSE m0
        prec == IF p0 > n
                THEN p0 - (DAYS_IN_MONTH[month]
                           + (IF month = 2 /\ leap THEN 1 ELSE 0))
                ELSE p0
    IN  IF n1 = 4 \/ n100 = 4
        THEN [year |-> year - 1, month |-> 12, day |-> 31]
        ELSE [year |-> year, month |-> month, day |-> (n - prec) + 1]

\* date.weekday(): Monday is 0
weekday(ord) == (ord + 6) % 7

-----------------------------------------------------------------------------
(* Event: the recurrence rule *)

\* next_occurrence_date with the day of the month carried over as it is
next_occurrence_date_unclamped(self, current_date) ==
    CASE self.recurrence_pattern = "daily"    -> current_date + 1
      [] self.recurrence_pattern = "weekly"   -> current_date + 7
      [] self.recurrence_pattern = "biweekly" -> current_date + 14
      [] self.recurrence_pattern = "monthly"  ->
            LET cur   == ord2ymd(current_date)
                year  == cur.year + (IF cur.month = 12 THEN 1 ELSE 0)
                month == IF cur.month = 12 THEN 1 ELSE cur.month + 1
            IN  ymd2ord(year, month, cur.day)
      [] OTHER -> None

\* next_occurrence_date with the date handed back where no pattern applies
next_occurrence_date_same(self, current_date) ==
    CASE self.recurrence_pattern = "daily"    -> current_date + 1
      [] self.recurrence_pattern = "weekly"   -> current_date + 7
      [] self.recurrence_pattern = "biweekly" -> current_date + 14
      [] self.recurrence_pattern = "monthly"  ->
            LET cur   == ord2ymd(current_date)
                year  == cur.year + (IF cur.month = 12 THEN 1 ELSE 0)
                month == IF cur.month = 12 THEN 1 ELSE cur.month + 1
                mr    == monthrange(year, month)
                day   == IF cur.day < mr THEN cur.day ELSE mr
            IN  ymd2ord(year, month, day)
      [] OTHER -> current_date

next_occurrence_date(self, current_date) ==
    CASE self.recurrence_pattern = "daily"    -> current_date + 1
      [] self.recurrence_pattern = "weekly"   -> current_date + 7
      [] self.recurrence_pattern = "biweekly" -> current_date + 14
      [] self.recurrence_pattern = "monthly"  ->
            LET cur   == ord2ymd(current_date)
                year  == cur.year + (IF cur.month = 12 THEN 1 ELSE 0)
                month == IF cur.month = 12 THEN 1 ELSE cur.month + 1
                mr    == monthrange(year, month)
                day   == IF cur.day < mr THEN cur.day ELSE mr
            IN  ymd2ord(year, month, day)
      [] OTHER -> None

\* first_recurrence_cursor with the shift to the weekday forgotten
first_recurrence_cursor_unshifted(self) == self.start_date

first_recurrence_cursor(self) ==
    IF /\ self.recurrence_pattern \in {"weekly", "biweekly"}
       /\ self.recurrence_weekday # None
    THEN LET offset == (self.recurrence_weekday - weekday(self.start_date)) % 7
         IN  self.start_date + offset
    ELSE self.start_date

RECURSIVE StepUntil(_, _, _)
\* while candidate < start: candidate += timedelta(days=step)
StepUntil(candidate, start, step) ==
    IF candidate < start THEN StepUntil(candidate + step, start, step)
    ELSE candidate

RECURSIVE SuccUntil(_, _, _)
\* while candidate < start: candidate = self._next_occurrence_date(candidate)
SuccUntil(self, candidate, start) ==
    IF candidate < start
    THEN SuccUntil(self, next_occurrence_date(self, candidate), start)
    ELSE candidate

RECURSIVE AddMonths(_, _, _)
\* for _ in range(months_apart): (year, month) += one month
AddMonths(year, month, k) ==
    IF k <= 0 THEN [year |-> year, month |-> month]
    ELSE AddMonths(year + (IF month = 12 THEN 1 ELSE 0),
                   IF month = 12 THEN 1 ELSE month + 1,
                   k - 1)

fast_forward_cursor(self, cursor, start) ==
    IF cursor >= start THEN cursor
    ELSE CASE self.recurrence_pattern = "daily" ->
                cursor + (start - cursor)
           [] self.recurrence_pattern = "weekly" ->
                LET delta_weeks == (start - cursor) \div 7
                IN  StepUntil(cursor + (delta_weeks * 7), start, 7)
           [] self.recurrence_pattern = "biweekly" ->
                LET delta_steps == (start - cursor) \div 14
                IN  StepUntil(cursor + (delta_steps * 14), start, 14)
           [] self.recurrence_pattern = "monthly" ->
                LET c == ord2ymd(cursor)
                    s == ord2ymd(start)
                    months_apart == ((s.year - c.year) * 12) + (s.month - c.month)
                    ym == AddMonths(c.year, c.month, months_apart)
                    mr == monthrange(ym.year, ym.month)
                    day == IF c.day < mr THEN c.day ELSE mr
                IN  IF months_apart <= 0 THEN cursor
                    ELSE SuccUntil(self, ymd2ord(ym.year, ym.month, day), start)
           [] OTHER -> cursor

\* Event.clean with the weekday check left out
EventCleanNoWeekdayCheck(self) == TRUE

\* Event.clean
EventClean(self) ==
    ~ ( /\ self.is_recurring
        /\ self.recurrence_pattern \in {"weekly", "biweekly"}
        /\ self.recurrence_weekday = None )


-----------------------------------------------------------------------------
(* EventOccurrence: the table and its queries *)

\* self.occurrences: the rows of one event
Occurrences(table, ev) == {r \in table : r.event = ev}

\* InWindow with the occurrence_date__lte bound forgotten
InWindowNoUpper(table, ev, start, end) ==
    {r \in Occurrences(table, ev) : r.occurrence_date >= start}

\* self.occurrences.filter(occurrence_date__gte=start, occurrence_date__lte=end)
InWindow(table, ev, start, end) ==
    {r \in Occurrences(table, ev) :
        r.occurrence_date >= start /\ r.occurrence_date <= end}

\* .delete() of the window's rows
DeleteWindow(table, ev, start, end) == table \ InWindow(table, ev, start, end)

\* RowExists with the lookup made on the pk instead of the date
RowExistsByPk(table, ev, d) ==
    \E r \in table : r.event = ev /\ r.id = d

\* the SELECT of get_or_create(event=self, occurrence_date=cursor)
RowExists(table, ev, d) ==
    \E r \in table : r.event = ev /\ r.occurrence_date = d

\* the row get_or_create inserts: the defaults given, the model's field defaults
NewRow(id, ev, self, d) ==
    [id |-> id, event |-> ev, occurrence_date |-> d,
     start_time |-> self.start_time, end_time |-> self.end_time,
     leader |-> None, is_cancelled |-> FALSE, notes |-> ""]

\* unique_together = ["event", "occurrence_date"]: the INSERT is refused
UniqueViolation(table, row) == RowExists(table, row.event, row.occurrence_date)

\* Retained with the recurrence_until ceiling forgotten
RetainedNoCeiling(self, cursor, start) == cursor >= start

\* the condition under which a cursor date is materialised
Retained(self, cursor, start) ==
    /\ cursor >= start
    /\ (self.recurrence_until = None \/ cursor <= self.recurrence_until)

-----------------------------------------------------------------------------
(* Event.generate_occurrences, one database statement per step *)

IdleCall ==
    [pc |-> "idle", ev |-> 0, start |-> None, end |-> None, rs |-> None,
     re |-> None, replace |-> FALSE, cursor |-> None, created |-> 0,
     ret |-> None, materialized |-> {}, deleted |-> {}, conflicts |-> 0,
     inserted |-> {}]

\* Enter with an inverted window read as the window between its two dates
EnterSwapped(table, nid, ev, self, rs, re, replace) ==
    LET start   == IF rs # None THEN rs ELSE self.start_date
        max_end == IF self.recurrence_until # None THEN self.recurrence_until
                   ELSE IF self.end_date # None THEN self.end_date
                   ELSE self.start_date
        end     == IF re # None THEN re ELSE max_end
        lo      == IF end < start THEN end ELSE start
        hi      == IF end < start THEN start ELSE end
        c0      == [IdleCall EXCEPT !.ev = ev, !.rs = rs, !.re = re,
                                    !.replace = replace]
    IN  IF ~self.is_recurring
        THEN [rows |-> table, nextId |-> nid,
              c |-> [c0 EXCEPT !.pc = "done", !.ret = 0]]
        ELSE [rows |-> IF replace THEN DeleteWindow(table, ev, lo, hi)
                       ELSE table,
              nextId |-> nid,
              c |-> [c0 EXCEPT
                       !.pc = "loop", !.start = lo, !.end = hi,
                       !.deleted = IF replace
                                   THEN InWindow(table, ev, lo, hi)
                                   ELSE {},
                       !.cursor = fast_forward_cursor(
                                      self, first_recurrence_cursor(self), lo)]]

\* from the entry to the first loop test: the guards, the defaults of the
\* window, the deletion of the window and the first cursor
Enter(table, nid, ev, self, rs, re, replace) ==
    LET start   == IF rs # None THEN rs ELSE self.start_date
        max_end == IF self.recurrence_until # None THEN self.recurrence_until
                   ELSE IF self.end_date # None THEN self.end_date
                   ELSE self.start_date
        end     == IF re # None THEN re ELSE max_end
        c0      == [IdleCall EXCEPT !.ev = ev, !.rs = rs, !.re = re,
                                    !.replace = replace]
    IN  IF ~self.is_recurring
        THEN [rows |-> table, nextId |-> nid,
              c |-> [c0 EXCEPT !.pc = "done", !.ret = 0]]
        ELSE IF end < start
        THEN [rows |-> table, nextId |-> nid,
              c |-> [c0 EXCEPT !.pc = "done", !.ret = 0,
                               !.start = start, !.end = end]]
        ELSE [rows |-> IF replace THEN DeleteWindow(table, ev, start, end)
                       ELSE table,
              nextId |-> nid,
              c |-> [c0 EXCEPT
                       !.pc = "loop", !.start = start, !.end = end,
                       !.deleted = IF replace
                                   THEN InWindow(table, ev, start, end)
                                   ELSE {},
                       !.cursor = fast_forward_cursor(
                                      self, first_recurrence_cursor(self), start)]]

\* CreateStep on a table without the unique constraint
CreateStepNoConstraint(st, self) ==
    LET c == st.c
    IN  [rows |-> st.rows \cup {NewRow(st.nextId, c.ev, self, c.cursor)},
         nextId |-> st.nextId + 1,
         c |-> [c EXCEPT !.pc = "loop", !.created = c.created + 1,
                         !.inserted = @ \cup {st.nextId},
                         !.cursor = next_occurrence_date(self, c.cursor)]]

\* CreateStep with the row counted as created when the INSERT was refused
CreateStepCountsRefused(st, self) ==
    LET c   == st.c
        row == NewRow(st.nextId, c.ev, self, c.cursor)
    IN  IF UniqueViolation(st.rows, row)
        THEN [st EXCEPT !.c.pc = "reget", !.c.conflicts = @ + 1,
                        !.c.created = @ + 1]
        ELSE [rows |-> st.rows \cup {row},
              nextId |-> st.nextId + 1,
              c |-> [c EXCEPT !.pc = "loop", !.created = c.created + 1,
                              !.inserted = @ \cup {st.nextId},
                              !.cursor = next_occurrence_date(self, c.cursor)]]

\* the INSERT of get_or_create; an IntegrityError sends it to the second SELECT
CreateStep(st, self) ==
    LET c   == st.c
        row == NewRow(st.nextId, c.ev, self, c.cursor)
    IN  IF UniqueViolation(st.rows, row)
        THEN [st EXCEPT !.c.pc = "reget", !.c.conflicts = @ + 1]
        ELSE [rows |-> st.rows \cup {row},
              nextId |-> st.nextId + 1,
              c |-> [c EXCEPT !.pc = "loop", !.created = c.created + 1,
                              !.inserted = @ \cup {st.nextId},
                              !.cursor = next_occurrence_date(self, c.cursor)]]

\* LoopStep with update_or_create in the place of get_or_create: the row
\* found is given the defaults again
LoopStepUpdate(st, self) ==
    LET c == st.c
        found == {r \in st.rows :
                     r.event = c.ev /\ r.occurrence_date = c.cursor}
    IN  IF ~(c.cursor # None /\ c.cursor <= c.end)
        THEN [st EXCEPT !.c.pc = "done", !.c.ret = c.created]
        ELSE IF Retained(self, c.cursor, c.start)
        THEN IF found # {}
             THEN [st EXCEPT
                     !.rows = (st.rows \ found) \cup
                              {[r EXCEPT !.start_time = self.start_time,
                                         !.end_time = self.end_time,
                                         !.leader = None,
                                         !.is_cancelled = FALSE,
                                         !.notes = ""] : r \in found},
                     !.c.materialized = @ \cup {c.cursor},
                     !.c.cursor = next_occurrence_date(self, c.cursor)]
             ELSE [st EXCEPT !.c.materialized = @ \cup {c.cursor},
                             !.c.pc = "create"]
        ELSE [st EXCEPT !.c.cursor = next_occurrence_date(self, c.cursor)]

\* the loop test, the filter and the first SELECT of get_or_create
LoopStep(st, self) ==
    LET c == st.c
    IN  IF ~(c.cursor # None /\ c.cursor <= c.end)
        THEN [st EXCEPT !.c.pc = "done", !.c.ret = c.created]
        ELSE IF Retained(self, c.cursor, c.start)
        THEN IF RowExists(st.rows, c.ev, c.cursor)
             THEN [st EXCEPT !.c.materialized = @ \cup {c.cursor},
                             !.c.cursor = next_occurrence_date(self, c.cursor)]
             ELSE [st EXCEPT !.c.materialized = @ \cup {c.cursor},
                             !.c.pc = "create"]
        ELSE [st EXCEPT !.c.cursor = next_occurrence_date(self, c.cursor)]

\* the SELECT after an IntegrityError; the error is raised again when the
\* row is not there either
RegetStep(st, self) ==
    LET c == st.c
    IN  IF RowExists(st.rows, c.ev, c.cursor)
        THEN [st EXCEPT !.c.pc = "loop",
                        !.c.cursor = next_occurrence_date(self, c.cursor)]
        ELSE [st EXCEPT !.c.pc = "failed"]

Step(st, self) ==
    CASE st.c.pc = "loop"   -> LoopStep(st, self)
      [] st.c.pc = "create" -> CreateStep(st, self)
      [] st.c.pc = "reget"  -> RegetStep(st, self)
      [] OTHER -> st

Running(c) == c.pc \in {"loop", "create", "reget"}

RECURSIVE Run(_, _)
\* the call run to its end with no other request in between
Run(st, self) == IF Running(st.c) THEN Run(Step(st, self), self) ELSE st

generate_occurrences(table, nid, ev, self, rs, re, replace) ==
    Run(Enter(table, nid, ev, self, rs, re, replace), self)

-----------------------------------------------------------------------------
(* Validation done by the admin before a save *)

\* EventOccurrence.clean with the recurrence_until check left out
OccurrenceCleanNoCheck(self, row) == TRUE

\* EventOccurrence.clean
OccurrenceClean(self, row) ==
    ~ ( /\ self.recurrence_until # None
        /\ row.occurrence_date > self.recurrence_until )

\* EventOccurrenceInlineFormSet.clean; every form carries an occurrence date
FormsetClean(instance, forms) ==
    /\ \A form \in forms :
          /\ instance.is_recurring
          /\ ~(form.occurrence_date < instance.start_date)
          /\ ~( /\ instance.recurrence_until # None
                /\ form.occurrence_date > instance.recurrence_until )
    /\ ~( /\ instance.is_recurring
          /\ forms # {}
          /\ instance.recurrence_until = None )

\* validate_unique of the forms: no two rows of one event on one date
UniqueTogether(table) ==
    \A r1 \in table : \A r2 \in table :
        (r1.event = r2.event /\ r1.occurrence_date = r2.occurrence_date)
            => r1.id = r2.id

-----------------------------------------------------------------------------
(* UserMFA: the TOTP code *)

\* A str is a sequence of characters; a character that cannot be typed here
\* goes by its Unicode name.
AsciiDigits == {"0", "1", "2", "3", "4", "5", "6", "7", "8", "9"}
\* characters of category Nd or No for which str.isdigit() holds as well
OtherDigits == {"ARABIC-INDIC DIGIT THREE", "SUPERSCRIPT TWO"}
\* characters for which str.isspace() holds
Whitespace == {" ", "LINE FEED"}

DigitChar == <<"0", "1", "2", "3", "4", "5", "6", "7", "8", "9">>

\* str.isdigit()
isdigit(token) ==
    /\ Len(token) > 0
    /\ \A i \in 1 .. Len(token) : token[i] \in AsciiDigits \cup OtherDigits

RECURSIVE lstrip(_)
lstrip(token) ==
    IF Len(token) > 0 /\ token[1] \in Whitespace THEN lstrip(Tail(token))
    ELSE token

RECURSIVE rstrip(_)
rstrip(token) ==
    IF Len(token) > 0 /\ token[Len(token)] \in Whitespace
    THEN rstrip(SubSeq(token, 1, Len(token) - 1))
    ELSE token

\* str.strip()
strip(token) == rstrip(lstrip(token))

RECURSIVE str(_)
\* str(n) of a natural number
str(n) ==
    IF n < 10 THEN <<DigitChar[n + 1]>>
    ELSE str(n \div 10) \o <<DigitChar[(n % 10) + 1]>>

RECURSIVE zfill(_, _)
\* str.zfill(width)
zfill(s, width) == IF Len(s) >= width THEN s ELSE zfill(<<"0">> \o s, width)

\* the secrets _generate_base32_secret hands out here: base32 of 20 bytes,
\* 32 characters, no padding left to strip
Secrets == {"GEZDGNBVGY3TQOJQGEZDGNBVGY3TQOJQ",
            "A4EASCQLBQGQ4DYQCEJBGFAVCYLRQGI2"}

Epoch == 1111111080               \* 2005-03-18 01:58:00 UTC, a multiple of 30
FirstCounter == 37037032          \* Epoch / 30 - 4

\* hmac.new(b32decode(secret + padding), struct.pack(">Q", counter),
\* hashlib.sha1).digest() for the counters FirstCounter .. FirstCounter + 12
HMAC_SHA1 ==
    "GEZDGNBVGY3TQOJQGEZDGNBVGY3TQOJQ" :>
        <<<<49, 119, 253, 225, 203, 157, 136, 27, 71, 200, 70, 170, 121, 243, 211, 0, 24, 106, 231, 83>>,
          <<30, 45, 30, 73, 75, 182, 205, 13, 13, 129, 223, 48, 105, 94, 10, 249, 21, 236, 228, 169>>,
          <<2, 131, 158, 199, 80, 50, 9, 147, 66, 43, 28, 218, 244, 30, 107, 199, 128, 194, 179, 236>>,
          <<239, 80, 252, 142, 195, 213, 180, 22, 230, 97, 209, 7, 40, 105, 165, 144, 83, 122, 117, 162>>,
          <<39, 140, 2, 229, 54, 16, 248, 76, 64, 189, 145, 53, 172, 212, 16, 16, 18, 65, 10, 20>>,
          <<176, 9, 43, 33, 208, 72, 175, 32, 157, 160, 161, 221, 212, 152, 173, 232, 167, 148, 135, 237>>,
          <<28, 48, 92, 150, 148, 133, 24, 7, 48, 11, 194, 137, 103, 119, 142, 211, 219, 19, 90, 116>>,
          <<203, 75, 77, 218, 204, 126, 217, 139, 95, 135, 153, 197, 100, 75, 42, 220, 23, 190, 140, 214>>,
          <<3, 151, 83, 90, 232, 34, 190, 126, 116, 58, 241, 117, 147, 212, 153, 211, 87, 6, 106, 242>>,
          <<131, 157, 72, 143, 57, 43, 111, 4, 37, 246, 237, 118, 25, 172, 54, 98, 237, 217, 137, 111>>,
          <<140, 231, 126, 124, 111, 229, 39, 179, 75, 17, 236, 49, 50, 175, 152, 82, 171, 143, 59, 93>>,
          <<198, 102, 208, 4, 108, 112, 72, 48, 145, 255, 167, 136, 93, 59, 30, 83, 226, 131, 4, 254>>,
          <<118, 230, 216, 95, 121, 174, 109, 105, 204, 153, 59, 188, 18, 65, 130, 2, 148, 56, 166, 132>>>> @@
    "A4EASCQLBQGQ4DYQCEJBGFAVCYLRQGI2" :>
        <<<<4, 142, 39, 186, 151, 222, 161, 145, 165, 216, 85, 238, 184, 113, 121, 247, 201, 177, 126, 37>>,
          <<171, 72, 67, 252, 47, 70, 57, 110, 177, 219, 248, 1, 38, 161, 219, 177, 218, 184, 23, 157>>,
          <<249, 139, 85, 55, 3, 16, 25, 180, 74, 42, 223, 124, 44, 248, 131, 147, 61, 205, 240, 131>>,
          <<31, 107, 92, 132, 6, 0, 247, 207, 185, 51, 76, 6, 155, 99, 177, 89, 235, 91, 159, 4>>,
          <<210, 242, 239, 164, 57, 55, 212, 131, 131, 80, 139, 171, 88, 42, 221, 20, 190, 92, 104, 55>>,
          <<247, 206, 26, 34, 24, 236, 218, 18, 61, 224, 91, 230, 254, 149, 35, 115, 167, 127, 109, 242>>,
          <<132, 130, 130, 54, 102, 200, 200, 204, 209, 173, 253, 78, 177, 183, 225, 145, 107, 51, 79, 9>>,
          <<21, 42, 253, 214, 187, 73, 222, 174, 100, 205, 177, 153, 160, 79, 166, 119, 220, 56, 19, 215>>,
          <<54, 240, 6, 179, 23, 230, 168, 157, 121, 2, 71, 162, 250, 61, 54, 241, 79, 101, 120, 159>>,
          <<168, 24, 14, 52, 49, 159, 199, 76, 113, 148, 172, 135, 129, 90, 133, 98, 73, 71, 210, 154>>,
          <<194, 102, 76, 66, 50, 169, 222, 229, 229, 120, 238, 126, 217, 174, 112, 49, 195, 120, 99, 116>>,
          <<188, 162, 193, 203, 241, 169, 113, 207, 245, 132, 186, 6, 192, 86, 250, 80, 210, 65, 100, 7>>,
          <<146, 113, 232, 203, 91, 102, 46, 206, 214, 197, 101, 61, 68, 104, 104, 162, 129, 181, 175, 238>>>>

hmac_sha1_digest(secret, counter) == HMAC_SHA1[secret][(counter - FirstCounter) + 1]

\* the dynamic truncation; the mask 0x7FFFFFFF clears the top bit of the
\* first of the four bytes
totp_code_for_counter(self, counter) ==
    LET digest == hmac_sha1_digest(self.secret, counter)
        offset == digest[20] % 16
        binary == ((digest[offset + 1] % 128) * 16777216)
                  + (digest[offset + 2] * 65536)
                  + (digest[offset + 3] * 256)
                  + digest[offset + 4]
    IN  zfill(str(binary % 1000000), 6)

\* the counters whose code the loop computes: all of them on a rejection,
\* those up to the first match on an acceptance
Computed(self, token, counter, valid_window) ==
    LET hits == {k \in (0 - valid_window) .. valid_window :
                    totp_code_for_counter(self, counter + k) = token}
    IN  {counter + k : k \in {j \in (0 - valid_window) .. valid_window :
                                 \A h \in hits : j <= h}}

\* verify_totp with a replay check: a code is refused when a verification
\* was already recorded in or after the latest period the code is good for
verify_totp_once(self, token, valid_window, t) ==
    IF self.secret = ""
    THEN [result |-> FALSE, self |-> self, hmacs |-> {}]
    ELSE LET tok == strip(token)
         IN  IF ~isdigit(tok) \/ Len(tok) # 6
             THEN [result |-> FALSE, self |-> self, hmacs |-> {}]
             ELSE LET counter == t \div 30
                      hmacs   == Computed(self, tok, counter, valid_window)
                  IN  IF \E c \in hmacs :
                            /\ totp_code_for_counter(self, c) = tok
                            /\ self.last_verified_at \div 30 < c - valid_window
                      THEN [result |-> TRUE,
                            self |-> [self EXCEPT !.last_verified_at = t,
                                                  !.updated_at = t],
                            hmacs |-> hmacs]
                      ELSE [result |-> FALSE, self |-> self, hmacs |-> hmacs]

\* verify_totp with the timestamp saved whatever the outcome
verify_totp_stamps_always(self, token, valid_window, t) ==
    IF self.secret = ""
    THEN [result |-> FALSE, self |-> self, hmacs |-> {}]
    ELSE LET tok == strip(token)
             stamped == [self EXCEPT !.last_verified_at = t, !.updated_at = t]
         IN  IF ~isdigit(tok) \/ Len(tok) # 6
             THEN [result |-> FALSE, self |-> stamped, hmacs |-> {}]
             ELSE LET counter == t \div 30
                      hmacs   == Computed(self, tok, counter, valid_window)
                  IN  IF \E c \in hmacs : totp_code_for_counter(self, c) = tok
                      THEN [result |-> TRUE, self |-> stamped, hmacs |-> hmacs]
                      ELSE [result |-> FALSE, self |-> stamped, hmacs |-> hmacs]

\* UserMFA.verify_totp at time t: the result, the row as saved, and the
\* counters an HMAC was computed for
verify_totp(self, token, valid_window, t) ==
    IF self.secret = ""
    THEN [result |-> FALSE, self |-> self, hmacs |-> {}]
    ELSE LET tok == strip(token)
         IN  IF ~isdigit(tok) \/ Len(tok) # 6
             THEN [result |-> FALSE, self |-> self, hmacs |-> {}]
             ELSE LET counter == t \div 30
                      hmacs   == Computed(self, tok, counter, valid_window)
                  IN  IF \E c \in hmacs : totp_code_for_counter(self, c) = tok
                      THEN [result |-> TRUE,
                            self |-> [self EXCEPT !.last_verified_at = t,
                                                  !.updated_at = t],
                            hmacs |-> hmacs]
                      ELSE [result |-> FALSE, self |-> self, hmacs |-> hmacs]

-----------------------------------------------------------------------------
(* OTPCodeForm and the messages of the views *)

\* OTPCodeForm(request.POST).is_valid(): CharField strips the value, then
\* requires it and checks min_length=6 and max_length=6
OTPCodeForm(code) ==
    LET value  == strip(code)
        errors == IF Len(value) = 0 THEN {"required"}
                  ELSE (IF Len(value) < 6 THEN {"min_length"} ELSE {})
                       \cup (IF Len(value) > 6 THEN {"max_length"} ELSE {})
    IN  [is_valid |-> errors = {}, code |-> value, errors |-> errors]

InvalidCode == "Invalid code. Please try again."
Enrolled == "MFA enrolled successfully."
Verified == "MFA verification successful."

-----------------------------------------------------------------------------
(* Inputs *)

EventIds == {1, 2}
Procs == {1, 2}

Patterns == {"", "daily", "weekly", "biweekly", "monthly"}

Jan29 == ymd2ord(2024, 1, 29)     \* a Monday
Jan31 == ymd2ord(2024, 1, 31)     \* a Wednesday, the last day of its month
Feb08 == ymd2ord(2024, 2, 8)

StartDates == {Jan29, Jan31}
UntilDates == {None, Feb08}

\* <<range_start, range_end>> as the caller gives them
Windows ==
    {<<None, None>>,
     <<None, ymd2ord(2024, 2, 2)>>,
     <<ymd2ord(2024, 2, 6), ymd2ord(2024, 2, 14)>>,
     <<ymd2ord(2024, 3, 29), ymd2ord(2024, 3, 31)>>,
     <<ymd2ord(2024, 2, 14), ymd2ord(2024, 2, 6)>>,
     <<ymd2ord(2024, 2, 6), None>>}

EventTime == 600                  \* 10:00, minutes after midnight

EventConfigs ==
    {e \in [is_recurring : BOOLEAN, recurrence_pattern : Patterns,
            recurrence_weekday : {None, 0, 2}, start_date : StartDates,
            end_date : {None}, recurrence_until : UntilDates,
            start_time : {EventTime}, end_time : {None}] :
        /\ EventClean(e)
        /\ (e.recurrence_weekday # None
               => e.recurrence_pattern \in {"weekly", "biweekly"})}

\* the second event: a midweek meeting with one date left
OtherEvent ==
    [is_recurring |-> TRUE, recurrence_pattern |-> "weekly",
     recurrence_weekday |-> 2, start_date |-> Jan31, end_date |-> None,
     recurrence_until |-> ymd2ord(2024, 2, 6),
     start_time |-> EventTime, end_time |-> None]

EditableFields ==
    {"occurrence_date", "leader", "is_cancelled", "notes", "start_time",
     "end_time"}

\* the values the admin's forms are given for a field
FieldValues(f) ==
    CASE f = "occurrence_date" ->
            {ymd2ord(2024, 1, 28), ymd2ord(2024, 2, 1), ymd2ord(2024, 2, 20)}
      [] f = "leader"       -> {1}
      [] f = "is_cancelled" -> {TRUE}
      [] f = "notes"        -> {"moved to the hall"}
      [] f = "start_time"   -> {1140}
      [] f = "end_time"     -> {1260}

-----------------------------------------------------------------------------
(* The system: whole requests, one at a time *)

Sessions == {1, 2}

\* a password column is the empty string, written NoPassword, or the k-th
\* salted hash that set_password made, written k
NoPassword == 0

\* the row get_or_create(user=...) makes, with the given secret and enrolment
Profile(secret, is_enrolled) ==
    [secret |-> secret, is_enrolled |-> is_enrolled,
     require_password_change |-> FALSE,
     password_hash_snapshot |-> NoPassword,
     enrolled_at |-> IF is_enrolled THEN Epoch - 86400 ELSE None,
     last_verified_at |-> None, updated_at |-> Epoch - 86400]

\* a session right after login. A key that is not in the session reads as
\* its default: mfa_verified as FALSE, mfa_enroll_secret_user_id as None.
FreshSession ==
    [mfa_verified |-> FALSE, mfa_enroll_secret_user_id |-> None,
     authenticated |-> TRUE]

\* a session after logout
AnonymousSession == [FreshSession EXCEPT !.authenticated = FALSE]

NoResp(self) ==
    [op |-> "none", session |-> 0, method |-> "none", token |-> <<>>,
     window |-> 0, at |-> 0,
     called |-> FALSE, result |-> FALSE, hmacs |-> {}, before |-> self,
     status |-> "none", messages |-> {}, form_errors |-> {},
     replay |-> FALSE, n |-> 0, path |-> <<>>, secret |-> "",
     shown |-> ""]

\* nothing shown to a session yet, no code accepted in it, no flag set,
\* nothing forced
NoHist ==
    [shown |-> [s \in Sessions |-> ""],
     proved |-> [s \in Sessions |-> FALSE],
     flag_password |-> NoPassword,
     forced |-> FALSE, ever_forced |-> FALSE, forced_secret |-> "",
     generated |-> {}]

\* a user whose password was set once, and the history empty
InitUser ==
    /\ user = [password |-> 1]
    /\ hist = NoHist

\* the secrets a request generated: rotate_secret always makes one,
\* ensure_secret when there was none
Generated(before, after, rotated) ==
    IF rotated \/ (before.secret = "" /\ after.secret # "")
    THEN {after.secret} ELSE {}

\* no donation stored, no save under way
IdleSave ==
    [pc |-> "idle", given |-> [prefix |-> "", stamp |-> <<>>],
     receipt_number |-> [prefix |-> "", stamp |-> <<>>], id |-> 0,
     saves |-> 0]

InitDonations ==
    /\ donations = {}
    /\ saving = [p \in Procs |-> IdleSave]

\* the empty occurrence table, no call under way, no form submitted
InitOccurrences ==
    /\ rows = {}
    /\ nextId = 1
    /\ call = [p \in Procs |-> IdleCall]
    /\ edits = 0
    /\ last = [op |-> "init", ev |-> 0, rs |-> None, re |-> None,
               replace |-> FALSE, ret |-> None, before |-> {},
               materialized |-> {}, repeat |-> FALSE,
               posted |-> {}, until |-> None]

Init ==
    /\ event \in {f \in [EventIds -> EventConfigs \cup {OtherEvent}] :
                     f[1] \in EventConfigs /\ f[2] = OtherEvent}
    /\ InitOccurrences
    /\ profile = Profile("", FALSE)
    /\ now = Epoch
    /\ session = [s \in Sessions |-> FreshSession]
    /\ resp = NoResp(profile)
    /\ accepted = {}
    /\ InitUser
    /\ InitDonations

\* a request that calls event.generate_occurrences(rs, re, replace)
Generate(ev, rs, re, replace) ==
    /\ LET st == generate_occurrences(rows, nextId, ev, event[ev], rs, re,
                                      replace)
       IN  /\ st.c.pc = "done"
           /\ rows' = st.rows
           /\ nextId' = st.nextId
           /\ last' = [op |-> "generate", ev |-> ev, rs |-> rs, re |-> re,
                       replace |-> replace, ret |-> st.c.ret,
                       before |-> rows,
                       materialized |-> st.c.materialized,
                       repeat |-> /\ last.op = "generate"
                                  /\ last.ev = ev /\ last.rs = rs
                                  /\ last.re = re /\ last.replace = replace,
                       posted |-> {}, until |-> None]
    /\ UNCHANGED <<event, call, edits>>
    /\ UNCHANGED <<mfaVars, user, hist, donations, saving>>

\* what a submitted admin form leaves in the history: the forms posted and
\* the recurrence_until they were validated against
Submitted(op, ev, forms, until) ==
    [last EXCEPT !.op = op, !.ev = ev, !.before = rows, !.repeat = FALSE,
                 !.posted = forms, !.until = until]

\* the change form of EventOccurrenceAdmin: one field of one row is edited;
\* an invalid form is shown again with its errors and nothing is saved
OccurrenceAdminSave(r, f, v) ==
    /\ edits < MaxEdits
    /\ r \in rows
    /\ LET new == [r EXCEPT ![f] = v]
           until == event[r.event].recurrence_until
       IN  IF /\ OccurrenceClean(event[r.event], new)
              /\ UniqueTogether((rows \ {r}) \cup {new})
           THEN /\ rows' = (rows \ {r}) \cup {new}
                /\ last' = Submitted("occurrence_admin", r.event, {new}, until)
           ELSE /\ rows' = rows
                /\ last' = Submitted("occurrence_admin_invalid", r.event,
                                     {new}, until)
    /\ edits' = edits + 1
    /\ UNCHANGED <<event, nextId, call>>
    /\ UNCHANGED <<mfaVars, user, hist, donations, saving>>

\* what the occurrence inline of an event's change form may post: the rows
\* as they are, or one field of one row edited
InlineForms(ev) ==
    LET occ == Occurrences(rows, ev)
        Edited(r) ==
            UNION {{[r EXCEPT ![f] = v] : v \in FieldValues(f)} :
                      f \in EditableFields}
    IN  {occ} \cup
        UNION {{(occ \ {r}) \cup {new} : new \in Edited(r)} : r \in occ}

\* the change form of EventAdmin with its occurrence inline: the event's
\* dates are edited and at most one inline row
EventAdminSave(ev, start_date, recurrence_until, forms) ==
    /\ edits < MaxEdits
    /\ LET instance == [event[ev] EXCEPT !.start_date = start_date,
                                         !.recurrence_until = recurrence_until]
       IN  IF /\ EventClean(instance)
              /\ \A form \in forms : OccurrenceClean(instance, form)
              /\ FormsetClean(instance, forms)
              /\ UniqueTogether(forms)
           THEN /\ event' = [event EXCEPT ![ev] = instance]
                /\ rows' = (rows \ Occurrences(rows, ev)) \cup forms
                /\ last' = Submitted("event_admin", ev, forms,
                                     recurrence_until)
           ELSE /\ UNCHANGED <<event, rows>>
                /\ last' = Submitted("event_admin_invalid", ev, forms,
                                     recurrence_until)
    /\ edits' = edits + 1
    /\ UNCHANGED <<nextId, call>>
    /\ UNCHANGED <<mfaVars, user, hist, donations, saving>>

\* the change form of EventAdmin posted with the rule edited and the inline
\* rows as they are
EventAdminSaveRule(ev, is_recurring, recurrence_pattern, recurrence_weekday) ==
    /\ edits < MaxEdits
    /\ LET instance == [event[ev] EXCEPT
                          !.is_recurring = is_recurring,
                          !.recurrence_pattern = recurrence_pattern,
                          !.recurrence_weekday = recurrence_weekday]
           forms == Occurrences(rows, ev)
           until == event[ev].recurrence_until
       IN  IF /\ EventClean(instance)
              /\ \A form \in forms : OccurrenceClean(instance, form)
              /\ FormsetClean(instance, forms)
           THEN /\ event' = [event EXCEPT ![ev] = instance]
                /\ last' = Submitted("event_admin", ev, forms, until)
           ELSE /\ event' = event
                /\ last' = Submitted("event_admin_invalid", ev, forms, until)
    /\ edits' = edits + 1
    /\ UNCHANGED <<rows, nextId, call>>
    /\ UNCHANGED <<mfaVars, user, hist, donations, saving>>

\* the calls made: any window on the first event, with or without
\* replacement; the default window on the second
Calls ==
    ({1} \X Windows \X BOOLEAN) \cup {<<2, <<None, None>>, FALSE>>}

Next ==
    \E c \in Calls :
        nextId <= MaxId /\ Generate(c[1], c[2][1], c[2][2], c[3])

Spec == Init /\ [][Next]_vars

-----------------------------------------------------------------------------
(* The system with the admin's change forms *)

AdminWindows ==
    {<<None, ymd2ord(2024, 2, 2)>>,
     <<ymd2ord(2024, 2, 6), ymd2ord(2024, 2, 14)>>}

InitAdmin == Init /\ event[1].is_recurring

NextAdmin ==
    \/ \E w \in AdminWindows, replace \in BOOLEAN :
          nextId <= MaxAdminId /\ Generate(1, w[1], w[2], replace)
    \/ \E r \in rows, f \in EditableFields :
          \E v \in FieldValues(f) : OccurrenceAdminSave(r, f, v)
    \/ \E sd \in StartDates, ru \in UntilDates, forms \in InlineForms(1) :
          EventAdminSave(1, sd, ru, forms)

SpecAdmin == InitAdmin /\ [][NextAdmin]_vars

-----------------------------------------------------------------------------
(* The system with the rule of an event edited in the admin *)

Weekdays == {None, 0, 2}

NextRule ==
    \/ \E w \in AdminWindows, replace \in BOOLEAN :
          nextId <= MaxAdminId /\ Generate(1, w[1], w[2], replace)
    \/ \E ir \in BOOLEAN, pat \in Patterns, wd \in Weekdays :
          EventAdminSaveRule(1, ir, pat, wd)

SpecRule == Init /\ [][NextRule]_vars

-----------------------------------------------------------------------------
(* Two requests run generate_occurrences at once, statement by statement *)

\* the request enters generate_occurrences: everything up to the first loop
\* test, the deletion of the window included
Begin(p, ev, rs, re, replace) ==
    /\ call[p].pc = "idle"
    /\ LET st == Enter(rows, nextId, ev, event[ev], rs, re, replace)
       IN  /\ rows' = st.rows
           /\ nextId' = st.nextId
           /\ call' = [call EXCEPT ![p] = st.c]
    /\ UNCHANGED <<event, edits, last>>
    /\ UNCHANGED <<mfaVars, user, hist, donations, saving>>

\* the request executes its next statement
CallStep(p) ==
    /\ Running(call[p])
    /\ LET st == Step([rows |-> rows, nextId |-> nextId, c |-> call[p]],
                      event[call[p].ev])
       IN  /\ rows' = st.rows
           /\ nextId' = st.nextId
           /\ call' = [call EXCEPT ![p] = st.c]
    /\ UNCHANGED <<event, edits, last>>
    /\ UNCHANGED <<mfaVars, user, hist, donations, saving>>

\* overlapping windows
RaceWindows ==
    {<<None, ymd2ord(2024, 2, 1)>>, <<Jan31, ymd2ord(2024, 2, 2)>>}

NextRace ==
    \/ \E p \in Procs, w \in RaceWindows : Begin(p, 1, w[1], w[2], FALSE)
    \/ \E p \in Procs : CallStep(p)

SpecRace == Init /\ [][NextRace]_vars

NextConc ==
    \/ \E p \in Procs, w \in RaceWindows, replace \in BOOLEAN :
          Begin(p, 1, w[1], w[2], replace)
    \/ \E p \in Procs : CallStep(p)

SpecConc == Init /\ [][NextConc]_vars

-----------------------------------------------------------------------------
(* Calls of generate_occurrences run statement by statement to their end *)

\* every pattern the column can hold: the choices, blank, and a value that
\* is none of the choices
AnyPattern == Patterns \cup {"yearly"}

TermConfigs ==
    {e \in [is_recurring : {TRUE}, recurrence_pattern : AnyPattern,
            recurrence_weekday : {None, 2}, start_date : StartDates,
            end_date : {None}, recurrence_until : UntilDates,
            start_time : {EventTime}, end_time : {None}] :
        /\ EventClean(e)
        /\ (e.recurrence_weekday # None
               => e.recurrence_pattern \in {"weekly", "biweekly"})}

TermWindows ==
    {<<None, Jan31>>,
     <<ymd2ord(2024, 2, 6), ymd2ord(2024, 2, 8)>>,
     <<ymd2ord(2024, 3, 29), ymd2ord(2024, 3, 31)>>}

\* <<request, window>>: the first request over any window, the second over
\* the first days of the event
TermCalls == ({1} \X TermWindows) \cup {<<2, <<None, Jan31>>>>}

InitTerm ==
    /\ event \in {f \in [EventIds -> TermConfigs \cup {OtherEvent}] :
                     f[1] \in TermConfigs /\ f[2] = OtherEvent}
    /\ InitOccurrences
    /\ profile = Profile("", FALSE)
    /\ now = Epoch
    /\ session = [s \in Sessions |-> FreshSession]
    /\ resp = NoResp(profile)
    /\ accepted = {}
    /\ InitUser
    /\ InitDonations

NextTerm ==
    \/ \E c \in TermCalls : Begin(c[1], 1, c[2][1], c[2][2], FALSE)
    \/ \E p \in Procs : CallStep(p)

\* a request that is in the call goes on to its next statement
SpecTerm ==
    InitTerm /\ [][NextTerm]_vars /\ \A p \in Procs : WF_vars(CallStep(p))

-----------------------------------------------------------------------------
(* generate_occurrences over a window and over the two parts of it *)

\* <<a, b, c>> with a <= b < c: the window [a, c] and its parts [a, b] and
\* [b + 1, c]
ShortSplits ==
    {<<Jan29, ymd2ord(2024, 2, 2), Feb08>>,
     <<Jan31, ymd2ord(2024, 2, 6), ymd2ord(2024, 2, 14)>>}

LongSplits == {<<Jan31, ymd2ord(2024, 2, 29), ymd2ord(2024, 3, 31)>>}

\* a daily rule is taken over the short windows only
SplitsOf(self) ==
    IF self.recurrence_pattern = "daily" THEN ShortSplits
    ELSE ShortSplits \cup LongSplits

SplitWindows(self) ==
    UNION {{<<s[1], s[3]>>, <<s[1], s[2]>>, <<s[2] + 1, s[3]>>} :
              s \in SplitsOf(self)}

SplitConfigs ==
    {e \in EventConfigs : e.is_recurring /\ e.recurrence_pattern # ""}

InitSplit ==
    /\ event \in {f \in [EventIds -> SplitConfigs \cup {OtherEvent}] :
                     f[1] \in SplitConfigs /\ f[2] = OtherEvent}
    /\ InitOccurrences
    /\ profile = Profile("", FALSE)
    /\ now = Epoch
    /\ session = [s \in Sessions |-> FreshSession]
    /\ resp = NoResp(profile)
    /\ accepted = {}
    /\ InitUser
    /\ InitDonations

NextSplit ==
    \E w \in SplitWindows(event[1]) :
        nextId <= MaxId /\ Generate(1, w[1], w[2], FALSE)

SpecSplit == InitSplit /\ [][NextSplit]_vars

-----------------------------------------------------------------------------
(* UserMFA.verify_totp called as a method, and the clock *)

UserId == 1

TickSeconds == 15
MaxTicks == 3

\* the codes of a secret for the given counters
CodesOf(secret, counters) ==
    {totp_code_for_counter([secret |-> secret], c) : c \in counters}

\* the codes an authenticator shows around the clock's range
AuthenticatorCodes ==
    CodesOf("GEZDGNBVGY3TQOJQGEZDGNBVGY3TQOJQ",
            (FirstCounter + 1) .. (FirstCounter + 8))
    \cup CodesOf("A4EASCQLBQGQ4DYQCEJBGFAVCYLRQGI2", {FirstCounter + 4})

WrongCode == <<"1", "2", "3", "4", "5", "6">>

\* tokens that are not six ASCII digits
Malformed ==
    {<<>>,
     <<"1", "2", "3", "4", "5">>,
     <<"1", "2", "3", "4", "5", "6", "7">>,
     <<"1", "2", "a", "4", "5", "6">>,
     <<"1", "2", "ARABIC-INDIC DIGIT THREE", "4", "5", "6">>,
     <<"SUPERSCRIPT TWO", "1", "2", "3", "4", "5">>,
     <<" ", "1", "2", "3", "4", "5">>}

\* a code with whitespace around it
Padded(codes) ==
    {<<" ">> \o c : c \in codes} \cup {c \o <<"LINE FEED">> : c \in codes}

Tokens ==
    AuthenticatorCodes
    \cup Padded(CodesOf("GEZDGNBVGY3TQOJQGEZDGNBVGY3TQOJQ",
                        {FirstCounter + 4}))
    \cup Malformed \cup {WrongCode}

ValidWindows == {0, 1, 2}

InitTotp ==
    /\ event = [e \in EventIds |-> OtherEvent]
    /\ InitOccurrences
    /\ profile \in {Profile(secret, e) :
                      secret \in Secrets \cup {""}, e \in BOOLEAN}
    /\ now = Epoch
    /\ session = [s \in Sessions |-> FreshSession]
    /\ resp = NoResp(profile)
    /\ accepted = {}
    /\ InitUser
    /\ InitDonations

\* time passes
Tick ==
    /\ now < Epoch + (TickSeconds * MaxTicks)
    /\ now' = now + TickSeconds
    /\ UNCHANGED <<event, rows, nextId, call, edits, last, donations, saving>>
    /\ UNCHANGED <<profile, session, resp, accepted, user, hist>>

\* profile.verify_totp(token, valid_window)
VerifyTotp(token, valid_window) ==
    /\ LET v == verify_totp(profile, token, valid_window, now)
       IN  /\ profile' = v.self
           /\ resp' = [NoResp(profile) EXCEPT
                         !.op = "verify_totp", !.token = token,
                         !.window = valid_window, !.at = now,
                         !.called = TRUE, !.result = v.result,
                         !.hmacs = v.hmacs]
    /\ UNCHANGED <<event, rows, nextId, call, edits, last, donations, saving>>
    /\ UNCHANGED <<now, session, accepted, user, hist>>

NextTotp ==
    \/ Tick
    \/ \E token \in Tokens, valid_window \in ValidWindows :
          VerifyTotp(token, valid_window)

SpecTotp == InitTotp /\ [][NextTotp]_vars

-----------------------------------------------------------------------------
(* The MFA views *)

MaxRequests == 2

\* what is typed into the code field: a code the authenticator shows, a
\* wrong code, a code too short, a code with a letter
ViewTokens ==
    CodesOf("GEZDGNBVGY3TQOJQGEZDGNBVGY3TQOJQ",
            (FirstCounter + 4) .. (FirstCounter + 5))
    \cup CodesOf("A4EASCQLBQGQ4DYQCEJBGFAVCYLRQGI2", {FirstCounter + 4})
    \cup {WrongCode,
          <<"1", "2", "3", "4", "5">>,
          <<"1", "2", "a", "4", "5", "6">>}

\* <<method, code>> of a request
Requests == {<<"GET", <<>>>>} \cup ({"POST"} \X ViewTokens)

\* a user who never enrolled, an enrolled user, and a user who has the
\* enrolment page open in session 1
InitMfa ==
    /\ event = [e \in EventIds |-> OtherEvent]
    /\ InitOccurrences
    /\ \/ /\ profile \in {Profile("", FALSE),
                          Profile("GEZDGNBVGY3TQOJQGEZDGNBVGY3TQOJQ", TRUE)}
          /\ session = [s \in Sessions |-> FreshSession]
       \/ /\ profile = Profile("GEZDGNBVGY3TQOJQGEZDGNBVGY3TQOJQ", FALSE)
          /\ session = [s \in Sessions |->
                          IF s = 1
                          THEN [FreshSession EXCEPT
                                  !.mfa_enroll_secret_user_id = UserId]
                          ELSE FreshSession]
    /\ now = Epoch
    /\ resp = NoResp(profile)
    /\ accepted = {}
    /\ InitUser
    /\ InitDonations

\* the codes accepted before that are still within one period of the clock
Replayed(self, code, t) ==
    \E a \in accepted :
        /\ a.token = code /\ a.secret = self.secret
        /\ (t \div 30) - 1 <= a.counter /\ a.counter <= (t \div 30) + 1

\* the acceptance a view adds to the history
Acceptance(self, s, code, t) ==
    [token |-> code, secret |-> self.secret, session |-> s, at |-> t,
     counter |-> CHOOSE c \in ((t \div 30) - 1) .. ((t \div 30) + 1) :
                    totp_code_for_counter(self, c) = code]

\* ensure_secret
EnsureSecret(self, t) ==
    IF self.secret = ""
    THEN {[self EXCEPT !.secret = new, !.updated_at = t] : new \in Secrets}
    ELSE {self}

\* rotate_secret
RotateSecret(self, t) ==
    {[self EXCEPT !.secret = new, !.updated_at = t] : new \in Secrets}

\* enroll_view
EnrollView(s, method, code) ==
    /\ resp.n < MaxRequests
    /\ session[s].authenticated
    /\ LET rotate == /\ ~profile.is_enrolled
                     /\ session[s].mfa_enroll_secret_user_id # UserId
           sess1  == IF rotate
                     THEN [session[s] EXCEPT
                             !.mfa_enroll_secret_user_id = UserId]
                     ELSE session[s]
           form   == OTPCodeForm(code)
           out    == [NoResp(profile) EXCEPT
                        !.op = "enroll_view", !.session = s,
                        !.shown = hist.shown[s],
                        !.method = method, !.token = code,
                        !.window = 1, !.at = now, !.n = resp.n + 1]
       IN  \E p1 \in IF rotate THEN RotateSecret(profile, now)
                     ELSE IF profile.is_enrolled
                     THEN EnsureSecret(profile, now)
                     ELSE {profile} :
              LET v == verify_totp(p1, form.code, 1, now)
              IN  IF method = "POST" /\ form.is_valid /\ v.result
                  THEN /\ profile' =
                            IF ~v.self.is_enrolled
                            THEN [v.self EXCEPT !.is_enrolled = TRUE,
                                                !.enrolled_at = now,
                                                !.updated_at = now]
                            ELSE v.self
                       /\ session' =
                            [session EXCEPT ![s] =
                               [sess1 EXCEPT
                                  !.mfa_verified = TRUE,
                                  !.mfa_enroll_secret_user_id = None]]
                       /\ accepted' = accepted \cup
                                      {Acceptance(p1, s, form.code, now)}
                       /\ resp' = [out EXCEPT
                                     !.called = TRUE, !.result = TRUE,
                                     !.hmacs = v.hmacs,
                                     !.secret = p1.secret,
                                     !.replay = Replayed(p1, form.code, now),
                                     !.status = "redirect",
                                     !.messages = {Enrolled}]
                       /\ hist' = [hist EXCEPT
                                     !.forced = FALSE,
                                     !.proved[s] = TRUE,
                                     !.generated =
                                        @ \cup Generated(profile, p1, rotate)]
                  ELSE /\ \E p2 \in EnsureSecret(
                                     IF method = "POST" /\ form.is_valid
                                     THEN v.self ELSE p1, now) :
                              /\ profile' = p2
                              /\ hist' = [hist EXCEPT
                                            !.shown[s] = p2.secret,
                                            !.generated =
                                               @ \cup Generated(profile, p2,
                                                                rotate)]
                       /\ session' = [session EXCEPT ![s] = sess1]
                       /\ accepted' = accepted
                       /\ resp' =
                            IF method = "POST" /\ form.is_valid
                            THEN [out EXCEPT
                                    !.called = TRUE, !.hmacs = v.hmacs,
                                    !.secret = p1.secret,
                                    !.replay = Replayed(p1, form.code, now),
                                    !.status = "render",
                                    !.messages = {InvalidCode}]
                            ELSE [out EXCEPT
                                    !.status = "render",
                                    !.form_errors =
                                       IF method = "POST" THEN form.errors
                                       ELSE {}]
    /\ UNCHANGED <<event, rows, nextId, call, edits, last, now>>
    /\ UNCHANGED <<user, donations, saving>>

\* verify_view
VerifyView(s, method, code) ==
    /\ resp.n < MaxRequests
    /\ session[s].authenticated
    /\ LET form == OTPCodeForm(code)
           v    == verify_totp(profile, form.code, 1, now)
           out  == [NoResp(profile) EXCEPT
                      !.op = "verify_view", !.session = s,
                      !.method = method, !.token = code,
                      !.window = 1, !.at = now, !.n = resp.n + 1]
       IN  IF ~profile.is_enrolled
           THEN /\ resp' = [out EXCEPT !.status = "redirect_enroll"]
                /\ UNCHANGED <<profile, session, accepted, hist>>
           ELSE IF method = "POST" /\ form.is_valid
           THEN /\ profile' = v.self
                /\ hist' = IF v.result
                           THEN [hist EXCEPT !.proved[s] = TRUE]
                           ELSE hist
                /\ session' = IF v.result
                              THEN [session EXCEPT ![s].mfa_verified = TRUE]
                              ELSE session
                /\ accepted' = IF v.result
                               THEN accepted \cup
                                    {Acceptance(profile, s, form.code, now)}
                               ELSE accepted
                /\ resp' = [out EXCEPT
                              !.called = TRUE, !.result = v.result,
                              !.hmacs = v.hmacs,
                              !.secret = profile.secret,
                              !.replay = Replayed(profile, form.code, now),
                              !.status = IF v.result THEN "redirect"
                                         ELSE "render",
                              !.messages = IF v.result THEN {Verified}
                                           ELSE {InvalidCode}]
           ELSE /\ resp' = [out EXCEPT
                              !.status = "render",
                              !.form_errors = IF method = "POST"
                                              THEN form.errors ELSE {}]
                /\ UNCHANGED <<profile, session, accepted, hist>>
    /\ UNCHANGED <<event, rows, nextId, call, edits, last, now>>
    /\ UNCHANGED <<user, donations, saving>>

\* Login with the mfa_verified of the session left as it was
LoginKeepsVerified(s) ==
    /\ resp.n < MaxRequests
    /\ session' = [session EXCEPT
                     ![s] = [FreshSession EXCEPT
                               !.mfa_verified = session[s].mfa_verified]]
    /\ resp' = [NoResp(profile) EXCEPT !.op = "login", !.session = s,
                                       !.at = now, !.n = resp.n + 1]
    /\ UNCHANGED <<event, rows, nextId, call, edits, last, donations, saving>>
    /\ hist' = [hist EXCEPT !.shown[s] = "", !.proved[s] = FALSE]
    /\ UNCHANGED <<profile, now, accepted, user>>

\* the user logs in on a session: reset_mfa_session_on_login
Login(s) ==
    /\ resp.n < MaxRequests
    /\ session' = [session EXCEPT ![s] = FreshSession]
    /\ resp' = [NoResp(profile) EXCEPT !.op = "login", !.session = s,
                                       !.at = now, !.n = resp.n + 1]
    /\ UNCHANGED <<event, rows, nextId, call, edits, last, donations, saving>>
    /\ hist' = [hist EXCEPT !.shown[s] = "", !.proved[s] = FALSE]
    /\ UNCHANGED <<profile, now, accepted, user>>

\* ForceReenroll with the secret left in the row
ForceReenrollKeepsSecret ==
    /\ resp.n < MaxRequests
    /\ profile' = [profile EXCEPT !.is_enrolled = FALSE,
                                  !.enrolled_at = None,
                                  !.last_verified_at = None]
    /\ resp' = [NoResp(profile) EXCEPT !.op = "force_reenroll", !.at = now,
                                       !.n = resp.n + 1]
    /\ UNCHANGED <<event, rows, nextId, call, edits, last, donations, saving>>
    /\ hist' = [hist EXCEPT !.forced = TRUE, !.ever_forced = TRUE,
                             !.forced_secret = profile.secret,
                             !.generated = {}]
    /\ UNCHANGED <<now, session, accepted, user>>

\* the admin action force_reenroll_next_login
ForceReenroll ==
    /\ resp.n < MaxRequests
    /\ profile' = [profile EXCEPT !.is_enrolled = FALSE, !.secret = "",
                                  !.enrolled_at = None,
                                  !.last_verified_at = None]
    /\ resp' = [NoResp(profile) EXCEPT !.op = "force_reenroll", !.at = now,
                                       !.n = resp.n + 1]
    /\ UNCHANGED <<event, rows, nextId, call, edits, last, donations, saving>>
    /\ hist' = [hist EXCEPT !.forced = TRUE, !.ever_forced = TRUE,
                             !.forced_secret = profile.secret,
                             !.generated = {}]
    /\ UNCHANGED <<now, session, accepted, user>>

NextMfa ==
    \/ Tick
    \/ \E s \in Sessions, r \in Requests : EnrollView(s, r[1], r[2])
    \/ \E s \in Sessions, r \in Requests : VerifyView(s, r[1], r[2])
    \/ \E s \in Sessions : Login(s)
    \/ ForceReenroll

SpecMfa == InitMfa /\ [][NextMfa]_vars

-----------------------------------------------------------------------------
(* MFAEnforcementMiddleware, the password of the user and the admin of     *)
(* UserMFA                                                                 *)

\* a path as its segments, the last one empty when the path ends with "/"
AdminIndex == <<"admin", "">>
PasswordChange == <<"admin", "password_change", "">>
PasswordChangeDone == <<"admin", "password_change", "done", "">>
StaticFile == <<"static", "admin", "css", "base.css">>

Paths == {AdminIndex, PasswordChange, PasswordChangeDone, StaticFile}

exempt_exact_paths == {PasswordChange}

exempt_prefixes ==
    {<<"admin", "login">>, <<"admin", "logout">>, <<"mfa">>, <<"static">>,
     <<"media">>}

\* path.startswith(prefix), the prefix ending with "/"
startswith(path, prefix) ==
    /\ Len(path) > Len(prefix)
    /\ SubSeq(path, 1, Len(prefix)) = prefix

Exempt(path) ==
    \/ \E prefix \in exempt_prefixes : startswith(path, prefix)
    \/ path \in exempt_exact_paths

\* the middleware with the test of the session left out
MiddlewareNoVerify(self, request_user, request_session, path, t) ==
    IF ~(request_session.authenticated /\ ~Exempt(path))
    THEN [status |-> "view", self |-> self]
    ELSE LET differs == /\ self.password_hash_snapshot # NoPassword
                        /\ request_user.password # self.password_hash_snapshot
             p1 == IF self.require_password_change /\ differs
                   THEN [self EXCEPT
                           !.require_password_change = FALSE,
                           !.password_hash_snapshot = request_user.password,
                           !.updated_at = t]
                   ELSE self
         IN  IF self.require_password_change /\ ~differs
             THEN [status |-> "redirect_password_change", self |-> self]
             ELSE IF ~p1.is_enrolled
             THEN [status |-> "redirect_enroll", self |-> p1]
             ELSE [status |-> "view", self |-> p1]

\* MFAEnforcementMiddleware.__call__: what the request is answered with and
\* the row of the profile after it
MFAEnforcementMiddleware(self, request_user, request_session, path, t) ==
    IF ~(request_session.authenticated /\ ~Exempt(path))
    THEN [status |-> "view", self |-> self]
    ELSE LET differs == /\ self.password_hash_snapshot # NoPassword
                        /\ request_user.password # self.password_hash_snapshot
             p1 == IF self.require_password_change /\ differs
                   THEN [self EXCEPT
                           !.require_password_change = FALSE,
                           !.password_hash_snapshot = request_user.password,
                           !.updated_at = t]
                   ELSE self
         IN  IF self.require_password_change /\ ~differs
             THEN [status |-> "redirect_password_change", self |-> self]
             ELSE IF ~p1.is_enrolled
             THEN [status |-> "redirect_enroll", self |-> p1]
             ELSE IF ~request_session.mfa_verified
             THEN [status |-> "redirect_verify", self |-> p1]
             ELSE [status |-> "view", self |-> p1]

\* a request to a path that is not one of the MFA views
Request(s, path) ==
    /\ resp.n < MaxRequests
    /\ LET out == MFAEnforcementMiddleware(profile, user, session[s], path,
                                           now)
       IN  /\ profile' = out.self
           /\ resp' = [NoResp(profile) EXCEPT
                         !.op = "request", !.session = s, !.path = path,
                         !.at = now, !.status = out.status,
                         !.n = resp.n + 1]
    /\ UNCHANGED <<event, rows, nextId, call, edits, last, donations, saving>>
    /\ UNCHANGED <<now, session, accepted, user, hist>>

\* the user changes the password in session s: set_password stores a new
\* hash, and the other sessions of the user are logged out by the session
\* hash that no longer matches
ChangePassword(s) ==
    /\ resp.n < MaxRequests
    /\ session[s].authenticated
    /\ user' = [user EXCEPT !.password = @ + 1]
    /\ session' = [x \in Sessions |->
                     IF x = s THEN session[x] ELSE AnonymousSession]
    /\ resp' = [NoResp(profile) EXCEPT
                  !.op = "password_change", !.session = s,
                  !.path = PasswordChange, !.at = now, !.n = resp.n + 1]
    /\ hist' = [hist EXCEPT
                  !.proved = [x \in Sessions |->
                                IF x = s THEN hist.proved[x] ELSE FALSE]]
    /\ UNCHANGED <<event, rows, nextId, call, edits, last, donations, saving>>
    /\ UNCHANGED <<profile, now, accepted>>

\* the change form of UserMFAAdmin saved with require_password_change set
\* to the given value and the other fields as they are
AdminSetFlag(require_password_change) ==
    /\ resp.n < MaxRequests
    /\ profile' = [profile EXCEPT
                     !.require_password_change = require_password_change,
                     !.updated_at = now]
    /\ hist' = [hist EXCEPT
                  !.flag_password =
                     IF require_password_change
                        /\ ~profile.require_password_change
                     THEN user.password ELSE @]
    /\ resp' = [NoResp(profile) EXCEPT !.op = "admin_change", !.at = now,
                                       !.n = resp.n + 1]
    /\ UNCHANGED <<event, rows, nextId, call, edits, last, donations, saving>>
    /\ UNCHANGED <<now, session, accepted, user>>

\* the user logs out of a session: clear_mfa_session_on_logout
Logout(s) ==
    /\ resp.n < MaxRequests
    /\ session[s].authenticated
    /\ session' = [session EXCEPT ![s] = AnonymousSession]
    /\ hist' = [hist EXCEPT !.proved[s] = FALSE]
    /\ resp' = [NoResp(profile) EXCEPT !.op = "logout", !.session = s,
                                       !.at = now, !.n = resp.n + 1]
    /\ UNCHANGED <<event, rows, nextId, call, edits, last, donations, saving>>
    /\ UNCHANGED <<profile, now, accepted, user>>

EnrolledSecret == "GEZDGNBVGY3TQOJQGEZDGNBVGY3TQOJQ"

\* the row bootstrap_user_security_profile leaves for a user created with
\* the given password
Bootstrapped(password) ==
    [Profile("", FALSE) EXCEPT !.require_password_change = TRUE,
                               !.password_hash_snapshot = password]

\* the row after the middleware took the flag away at the given password
Cleared(self, password) ==
    [self EXCEPT !.require_password_change = FALSE,
                 !.password_hash_snapshot = password]

\* the user and the profile at the start: <<profile, password of the user,
\* password when the flag was set>>
GateUsers ==
    \* created with the signal, before and after the first password change
    {<<Bootstrapped(1), pw, 1>> : pw \in {1, 2}}
    \* a user older than the signal, the profile made by get_or_create
    \cup {<<Profile("", FALSE), 1, NoPassword>>,
          <<Profile(EnrolledSecret, TRUE), 1, NoPassword>>}
    \* the same with the flag set in the admin
    \cup {<<[Profile(EnrolledSecret, TRUE) EXCEPT
               !.require_password_change = TRUE], 1, 1>>}
    \* after the first password change and the request that followed it
    \cup {<<Cleared(Bootstrapped(1), 2), 2, 1>>}
    \* the same enrolled, before and after one more password change
    \cup {<<Cleared([Bootstrapped(1) EXCEPT !.secret = EnrolledSecret,
                                            !.is_enrolled = TRUE,
                                            !.enrolled_at = Epoch - 86400],
                    2), pw, 1>> : pw \in {2, 3}}

\* session 1 is logged in; session 2 is logged in, logged out, or has had a
\* code of the enrolled user accepted
InitGateSessions(u) ==
    \E s2 \in {FreshSession, AnonymousSession} \cup
              (IF u[1].is_enrolled
               THEN {[FreshSession EXCEPT !.mfa_verified = TRUE]}
               ELSE {}) :
        /\ profile = u[1]
        /\ session = [s \in Sessions |-> IF s = 1 THEN FreshSession ELSE s2]
        /\ hist = [NoHist EXCEPT !.flag_password = u[3],
                                 !.proved[2] = s2.mfa_verified]

\* the enrolment page is open in session 1, and session 2 is logged in
InitGateEnrolling(u) ==
    /\ ~u[1].is_enrolled
    /\ ~u[1].require_password_change
    /\ profile = [u[1] EXCEPT !.secret = EnrolledSecret]
    /\ session = [s \in Sessions |->
                    IF s = 1
                    THEN [FreshSession EXCEPT
                            !.mfa_enroll_secret_user_id = UserId]
                    ELSE FreshSession]
    /\ hist = [NoHist EXCEPT !.flag_password = u[3],
                             !.shown[1] = EnrolledSecret,
                             !.generated = {EnrolledSecret}]

InitGate ==
    /\ event = [e \in EventIds |-> OtherEvent]
    /\ InitOccurrences
    /\ InitDonations
    /\ now = Epoch
    /\ accepted = {}
    /\ \E u \in GateUsers :
          /\ user = [password |-> u[2]]
          /\ InitGateSessions(u) \/ InitGateEnrolling(u)
    /\ resp = NoResp(profile)

\* what is typed into the code field: the code the authenticator shows for
\* each of the secrets, and a wrong code
GateTokens ==
    UNION {CodesOf(secret, {Epoch \div 30}) : secret \in Secrets}
    \cup {WrongCode}

GateRequests == {<<"GET", <<>>>>} \cup ({"POST"} \X GateTokens)

NextGate ==
    \/ \E s \in Sessions, path \in Paths : Request(s, path)
    \/ \E s \in Sessions, r \in GateRequests : EnrollView(s, r[1], r[2])
    \/ \E s \in Sessions, r \in GateRequests : VerifyView(s, r[1], r[2])
    \/ \E s \in Sessions : Login(s)
    \/ \E s \in Sessions : Logout(s)
    \/ \E s \in Sessions : ChangePassword(s)
    \/ \E v \in BOOLEAN : AdminSetFlag(v)
    \/ ForceReenroll

SpecGate == InitGate /\ [][NextGate]_vars

-----------------------------------------------------------------------------
(* Donation.save and the receipt number *)

MaxDonations == 3
MaxSaves == 1

\* a receipt number: what stands before the digits, and the digits as the
\* numbers they spell; the blank receipt number is the empty string
Blank == [prefix |-> "", stamp |-> <<>>]

\* datetime.now().strftime("%Y%m%d%H%M%S") at t seconds after 1970-01-01
strftime(t) ==
    LET d   == ord2ymd(ymd2ord(1970, 1, 1) + (t \div 86400))
        sod == t % 86400
    IN  <<d.year, d.month, d.day,
          sod \div 3600, (sod % 3600) \div 60, sod % 60>>

\* the receipt number save() leaves on the instance
ReceiptOnSave(receipt_number, t) ==
    IF receipt_number = Blank
    THEN [prefix |-> "RCP-", stamp |-> strftime(t)]
    ELSE receipt_number

\* the receipt numbers typed into the form: none, or one made by hand
GivenReceipts == {Blank, [prefix |-> "MANUAL-", stamp |-> <<1>>]}

\* save() of a new donation up to super().save()
BeginSave(p, given) ==
    /\ saving[p].pc # "insert"
    /\ Cardinality(donations)
          + Cardinality({q \in Procs : saving[q].pc = "insert"})
             < MaxDonations
    /\ saving' = [saving EXCEPT ![p] =
                     [pc |-> "insert", given |-> given,
                      receipt_number |-> ReceiptOnSave(given, now),
                      id |-> 0, saves |-> 0]]
    /\ UNCHANGED <<event, rows, nextId, call, edits, last, donations>>
    /\ UNCHANGED <<mfaVars, user, hist>>

\* super().save() of a new donation: the INSERT, refused with an
\* IntegrityError when the receipt number is stored already
InsertDonation(p) ==
    /\ saving[p].pc = "insert"
    /\ IF \E d \in donations :
             d.receipt_number = saving[p].receipt_number
       THEN /\ saving' = [saving EXCEPT ![p].pc = "IntegrityError"]
            /\ UNCHANGED donations
       ELSE LET id == Cardinality(donations) + 1
            IN  /\ donations' = donations \cup
                       {[id |-> id,
                         receipt_number |-> saving[p].receipt_number]}
                /\ saving' = [saving EXCEPT ![p].pc = "saved", ![p].id = id]
    /\ UNCHANGED <<event, rows, nextId, call, edits, last>>
    /\ UNCHANGED <<mfaVars, user, hist>>

\* save() of a donation that is stored: the UPDATE of its row
SaveAgain(p) ==
    /\ saving[p].pc = "saved"
    /\ saving[p].saves < MaxSaves
    /\ LET rn == ReceiptOnSave(saving[p].receipt_number, now)
       IN  /\ donations' = {IF d.id = saving[p].id
                            THEN [d EXCEPT !.receipt_number = rn]
                            ELSE d : d \in donations}
           /\ saving' = [saving EXCEPT ![p].receipt_number = rn,
                                       ![p].saves = @ + 1]
    /\ UNCHANGED <<event, rows, nextId, call, edits, last>>
    /\ UNCHANGED <<mfaVars, user, hist>>

InitDonation ==
    /\ event = [e \in EventIds |-> OtherEvent]
    /\ InitOccurrences
    /\ profile = Profile("", FALSE)
    /\ now = Epoch
    /\ session = [s \in Sessions |-> FreshSession]
    /\ resp = NoResp(profile)
    /\ accepted = {}
    /\ InitUser
    /\ InitDonations

NextDonation ==
    \/ Tick
    \/ \E p \in Procs, given \in GivenReceipts : BeginSave(p, given)
    \/ \E p \in Procs : InsertDonation(p)
    \/ \E p \in Procs : SaveAgain(p)

SpecDonation == InitDonation /\ [][NextDonation]_vars

-----------------------------------------------------------------------------
(* Properties of generate_occurrences *)

RecurringPatterns == {"daily", "weekly", "biweekly", "monthly"}

Max(a, b) == IF a >= b THEN a ELSE b

\* the window of a call: the dates given, or the documented defaults
WindowStart(self, rs) == IF rs # None THEN rs ELSE self.start_date
WindowEnd(self, re) ==
    IF re # None THEN re
    ELSE IF self.recurrence_until # None THEN self.recurrence_until
    ELSE IF self.end_date # None THEN self.end_date
    ELSE self.start_date

\* the rows the last call inserted
Inserted == rows \ last.before
\* the rows the last call deleted
Deleted == last.before \ rows

DatesOf(table, ev) == {r.occurrence_date : r \in Occurrences(table, ev)}

LastEvent == event[last.ev]
LastStart == WindowStart(LastEvent, last.rs)
LastEnd == WindowEnd(LastEvent, last.re)

\* C1: every row a call inserts for a daily, weekly, biweekly or monthly
\* rule is dated within [max(range_start, start_date), range_end], and not
\* after recurrence_until when that is set.
C1_InsertedWithinWindow ==
    (last.op = "generate" /\ LastEvent.recurrence_pattern \in RecurringPatterns)
    => \A r \in Inserted :
          /\ r.event = last.ev
          /\ Max(LastStart, LastEvent.start_date) <= r.occurrence_date
          /\ r.occurrence_date <= LastEnd
          /\ (LastEvent.recurrence_until # None
                 => r.occurrence_date <= LastEvent.recurrence_until)

\* a call whose window runs past recurrence_until inserted rows
C1_Witness ==
    /\ last.op = "generate"
    /\ LastEvent.recurrence_pattern \in RecurringPatterns
    /\ LastEvent.recurrence_until # None
    /\ last.re # None /\ last.re > LastEvent.recurrence_until
    /\ last.rs # None /\ last.rs > LastEvent.start_date
    /\ Cardinality(Inserted) >= 2

RECURSIVE NaiveDates(_, _, _, _)
\* the in-window dates met when the successor is applied one step at a time
NaiveDates(self, cursor, start, end) ==
    IF cursor = None \/ cursor > end THEN {}
    ELSE (IF Retained(self, cursor, start) THEN {cursor} ELSE {})
         \cup NaiveDates(self, next_occurrence_date(self, cursor), start, end)

\* C2: the dates a call materialises from the fast-forwarded cursor are the
\* in-window dates of the one-step iteration from the base cursor.
C2_FastForwardEquivalence ==
    (/\ last.op = "generate"
     /\ LastEvent.is_recurring
     /\ LastEvent.recurrence_pattern \in RecurringPatterns
     /\ LastStart <= LastEnd)
    => last.materialized =
          NaiveDates(LastEvent, first_recurrence_cursor(LastEvent),
                     LastStart, LastEnd)

\* C3: a call on an event that is not recurring, or whose pattern is blank,
\* returns 0 and creates no row.
C3_NoPatternNoOccurrences ==
    (/\ last.op = "generate"
     /\ (~LastEvent.is_recurring \/ LastEvent.recurrence_pattern = ""))
    => (last.ret = 0 /\ Inserted = {})

\* C4: the second of two successive calls with the same window and
\* replace_existing=False returns 0 and leaves the set of dates as it was.
C4_Idempotent ==
    (last.op = "generate" /\ last.repeat /\ ~last.replace)
    => /\ last.ret = 0
       /\ DatesOf(rows, last.ev) = DatesOf(last.before, last.ev)

\* the second of two such calls, over a window that holds occurrences
C4_Witness ==
    /\ last.op = "generate" /\ last.repeat /\ ~last.replace
    /\ last.materialized # {}
    /\ LastEvent.recurrence_pattern \in RecurringPatterns

\* a field of the row differs from what generate_occurrences writes
ManuallyEdited(r) ==
    \/ r.leader # None
    \/ r.notes # ""
    \/ r.is_cancelled
    \/ r.start_time # event[r.event].start_time
    \/ r.end_time # event[r.event].end_time

\* C5: a call with replace_existing=False leaves every field of every row
\* that existed before it as it was, manual edits included.
C5_EditsSurvive ==
    (last.op = "generate" /\ ~last.replace)
    => \A r \in last.before : r \in rows

\* such a call went over the date of a manually edited row
C5_Witness ==
    /\ last.op = "generate" /\ ~last.replace
    /\ \E r \in last.before :
          ManuallyEdited(r) /\ r.occurrence_date \in last.materialized

\* C6: every stored occurrence of an event whose recurrence_until is set is
\* dated within [start_date, recurrence_until].
C6_DatesWithinRule ==
    \A r \in rows :
        event[r.event].recurrence_until # None
        => /\ event[r.event].start_date <= r.occurrence_date
           /\ r.occurrence_date <= event[r.event].recurrence_until

\* the table with the pks left out
Content(table) == {[r EXCEPT !.id = 0] : r \in table}

\* the table after the calls of p and then q, one after the other, on the
\* empty table the requests started from
SerialRows(p, q) ==
    LET s1 == generate_occurrences({}, 1, call[p].ev, event[call[p].ev],
                                   call[p].rs, call[p].re, call[p].replace)
        s2 == generate_occurrences(s1.rows, s1.nextId, call[q].ev,
                                   event[call[q].ev], call[q].rs, call[q].re,
                                   call[q].replace)
    IN  s2.rows

\* C7: two interleaved calls on one event with replace_existing=False: no
\* call fails on the unique constraint, no (event, date) ever has two rows,
\* and the final table is that of the two calls run one after the other.
C7_RaceSafe ==
    /\ \A p \in Procs : call[p].pc # "failed"
    /\ UniqueTogether(rows)
    /\ (\A p \in Procs : call[p].pc = "done")
       => /\ Content(rows) = Content(SerialRows(1, 2))
          /\ Content(rows) = Content(SerialRows(2, 1))

\* both calls are over and one of them met the other's row at its INSERT
C7_Witness ==
    /\ \A p \in Procs : call[p].pc = "done"
    /\ \E p \in Procs : call[p].conflicts > 0
    /\ call[1].rs # call[2].rs

\* C8: a call deletes rows only with replace_existing=True, and then only
\* rows of its own event dated within [range_start, range_end].
C8_DeleteScoped ==
    last.op = "generate"
    => \A r \in Deleted :
          /\ last.replace
          /\ r.event = last.ev
          /\ LastStart <= r.occurrence_date
          /\ r.occurrence_date <= LastEnd

\* a replacing call deleted rows while the event had a row after the window
\* and another event had rows
C8_Witness ==
    /\ last.op = "generate" /\ last.replace
    /\ Deleted # {}
    /\ \E r \in last.before \cap rows :
          r.event = last.ev /\ r.occurrence_date > LastEnd
    /\ \E r \in last.before \cap rows : r.event # last.ev

\* the dates the call of p materialises when it runs on from here alone
Regenerates(p) ==
    Run([rows |-> rows, nextId |-> nextId, c |-> call[p]],
        event[call[p].ev]).c.materialized

C10_OnWeekday ==
    /\ \A ev \in EventIds :
          (/\ event[ev].recurrence_pattern \in {"weekly", "biweekly"}
           /\ event[ev].recurrence_weekday # None)
          => LET base == first_recurrence_cursor(event[ev])
             IN  /\ event[ev].start_date <= base
                 /\ base <= event[ev].start_date + 6
                 /\ weekday(base) = event[ev].recurrence_weekday
    /\ (/\ last.op = "generate"
        /\ LastEvent.recurrence_pattern \in {"weekly", "biweekly"}
        /\ LastEvent.recurrence_weekday # None)
       => \A d \in last.materialized \cup
                   {r.occurrence_date : r \in Inserted} :
             /\ weekday(d) = LastEvent.recurrence_weekday
             /\ LastEvent.start_date <= d

\* a weekly rule whose start_date is not on its weekday: the window holds
\* start_date, and the first occurrence is the weekday after it
C10_Witness ==
    /\ last.op = "generate"
    /\ LastEvent.recurrence_pattern \in {"weekly", "biweekly"}
    /\ LastEvent.recurrence_weekday # None
    /\ weekday(LastEvent.start_date) # LastEvent.recurrence_weekday
    /\ last.rs = None
    /\ last.materialized # {}
    /\ LastEvent.start_date \notin last.materialized

\* C11: a call whose window, after the defaults, has range_end before
\* range_start returns 0 and leaves the table as it was: nothing inserted,
\* nothing deleted, with replace_existing=True as well.
C11_InvertedWindowNoOp ==
    (last.op = "generate" /\ LastEnd < LastStart)
    => (last.ret = 0 /\ rows = last.before)

\* a replacing call with an inverted window, while the event has rows dated
\* between the two bounds; the end of the window came from the defaults
C11_Witness ==
    /\ last.op = "generate" /\ last.replace
    /\ LastEvent.is_recurring
    /\ last.re = None
    /\ LastEnd < LastStart
    /\ \E r \in rows :
          /\ r.event = last.ev
          /\ LastEnd <= r.occurrence_date /\ r.occurrence_date <= LastStart

\* C12: the value a call returns is the number of rows that call itself
\* inserted; a date whose row was already there, or was inserted by the
\* other call in the meantime, is not counted, so every row inserted is
\* counted by exactly one call.
C12_ReturnsOwnInserts ==
    /\ \A p \in Procs :
          call[p].pc = "done" => call[p].ret = Cardinality(call[p].inserted)
    /\ call[1].inserted \cap call[2].inserted = {}
    /\ call[1].inserted \cup call[2].inserted = 1 .. (nextId - 1)
    /\ (\A p \in Procs : call[p].pc = "done")
       => call[1].ret + call[2].ret = nextId - 1

\* both calls are over, each inserted rows, and one of them went over dates
\* it did not insert: one found by its SELECT, one refused at its INSERT
C12_Witness ==
    /\ \A p \in Procs : call[p].pc = "done" /\ call[p].ret > 0
    /\ \E p \in Procs :
          /\ call[p].conflicts > 0
          /\ Cardinality(call[p].materialized) > call[p].ret + call[p].conflicts

\* C13: a weekly or biweekly rule without a weekday is refused by
\* Event.clean before any generation: no recurring event is ever stored in
\* that configuration, and no call materialises an occurrence for an event
\* whose rule is weekly or biweekly without a weekday.
C13_NoWeekdayNeverGenerated ==
    /\ \A ev \in EventIds :
          ~ ( /\ event[ev].is_recurring
              /\ event[ev].recurrence_pattern \in {"weekly", "biweekly"}
              /\ event[ev].recurrence_weekday = None )
    /\ (/\ last.op = "generate"
        /\ LastEvent.recurrence_pattern \in {"weekly", "biweekly"}
        /\ LastEvent.recurrence_weekday = None)
       => (last.materialized = {} /\ Inserted = {} /\ last.ret = 0)

\* the admin saved a weekly rule without a weekday on an event that is not
\* recurring, and generate_occurrences was then called on it
C13_Witness ==
    /\ last.op = "generate"
    /\ edits > 0
    /\ LastEvent.recurrence_pattern \in {"weekly", "biweekly"}
    /\ LastEvent.recurrence_weekday = None
    /\ LastStart <= LastEnd

\* C14: an admin form that gives an occurrence a date later than the
\* event's recurrence_until fails validation and nothing of it is saved, in
\* the change form of the occurrence (EventOccurrence.clean) and in the
\* occurrence inline of the event's change form.
C14_LateDateRefused ==
    (/\ last.op \in {"occurrence_admin", "occurrence_admin_invalid",
                     "event_admin", "event_admin_invalid"}
     /\ last.until # None
     /\ \E form \in last.posted : form.occurrence_date > last.until)
    => /\ last.op \in {"occurrence_admin_invalid", "event_admin_invalid"}
       /\ rows = last.before

\* the change form of an occurrence was posted with a date after
\* recurrence_until, the only thing wrong with it
C14_Witness ==
    /\ last.op = "occurrence_admin_invalid"
    /\ last.until # None
    /\ \E form \in last.posted :
          /\ form.occurrence_date > last.until
          /\ UniqueTogether((rows \ {r \in rows : r.id = form.id})
                            \cup {form})

\* the same through the occurrence inline of the event's change form
C14_WitnessInline ==
    /\ last.op = "event_admin_invalid"
    /\ last.until # None
    /\ EventClean(LastEvent)
    /\ \E form \in last.posted : form.occurrence_date > last.until
    /\ \A form \in last.posted : form.occurrence_date >= LastEvent.start_date

\* the dates a cursor can take
CursorDates == ymd2ord(2024, 1, 28) .. ymd2ord(2024, 4, 30)

\* C20: every call ends. A step of the loop takes the cursor to a strictly
\* later date or to no date, for every pattern, blank and unknown included,
\* which also bounds the correction loops of _fast_forward_cursor; the call
\* is never at an INSERT with a cursor after range_end; and a call that is in
\* its loop is eventually out of it.
C20_Terminates ==
    /\ [](\A d \in CursorDates :
             LET n == next_occurrence_date(event[1], d)
             IN  n = None \/ n > d)
    /\ [][\A p \in Procs :
             (call[p].pc # "idle" /\ call'[p].cursor # call[p].cursor)
                => (call'[p].cursor = None \/ call'[p].cursor > call[p].cursor)
         ]_vars
    /\ [](\A p \in Procs :
             call[p].pc \in {"create", "reget"}
                => (call[p].cursor # None /\ call[p].cursor <= call[p].end))
    /\ \A p \in Procs : Running(call[p]) ~> ~Running(call[p])

\* a call on an event of unknown pattern is over: it made one row and then
\* the successor gave no date
C20_Witness ==
    \E p \in Procs :
        /\ call[p].pc = "done"
        /\ event[call[p].ev].recurrence_pattern = "yearly"
        /\ call[p].created = 1
        /\ call[p].cursor = None

\* a call on a monthly event is over, past the end of a window that the
\* cursor had to be brought forward to
C20_WitnessMonthly ==
    \E p \in Procs :
        /\ call[p].pc = "done"
        /\ event[call[p].ev].recurrence_pattern = "monthly"
        /\ call[p].rs = ymd2ord(2024, 3, 29)
        /\ call[p].created = 1
        /\ call[p].cursor > call[p].end

\* the dates the monthly successor is applied to: the first, a middle and
\* the last days of every month of a common year and of a leap year
MonthDates ==
    {ymd2ord(y, m, d) : <<y, m, d>> \in
        {x \in {2023, 2024} \X (1 .. 12) \X {1, 15, 28, 29, 30, 31} :
            x[3] <= monthrange(x[1], x[2])}}

\* C21: the successor of a date under a monthly rule is in the calendar
\* month that follows (January of the next year after December), on the same
\* day of the month, or on the last day of that month when the month is
\* shorter; it is a date of the calendar and it is later than the date given.
C21_MonthlySuccessor ==
    event[1].recurrence_pattern = "monthly" =>
        \A d \in MonthDates :
            LET cur == ord2ymd(d)
                n   == next_occurrence_date(event[1], d)
                nx  == ord2ymd(n)
                len == monthrange(nx.year, nx.month)
            IN  /\ n # None
                /\ n > d
                /\ nx.day \in 1 .. len
                /\ ymd2ord(nx.year, nx.month, nx.day) = n
                /\ nx.month = (cur.month % 12) + 1
                /\ nx.year = IF cur.month = 12 THEN cur.year + 1 ELSE cur.year
                /\ nx.day = IF cur.day <= len THEN cur.day ELSE len

\* a call on a monthly event that starts on January 31 made the row of that
\* day and its cursor went on to February 29, the last day of the month
C21_Witness ==
    \E p \in Procs :
        /\ call[p].pc # "idle"
        /\ event[call[p].ev].recurrence_pattern = "monthly"
        /\ Jan31 \in call[p].materialized
        /\ call[p].cursor = ymd2ord(2024, 2, 29)
        /\ ymd2ord(2024, 2, 29) = next_occurrence_date(event[1], Jan31)

\* the year and month of a date
MonthOf(d) == <<ord2ymd(d).year, ord2ymd(d).month>>

\* the rows of a call on event 1 over [rs, re] that starts from no rows
FromNoRows(rs, re) ==
    generate_occurrences({}, 1, 1, event[1], rs, re, FALSE).rows

\* C28: starting from no rows and without replace_existing, a call over
\* [a, b] and a call over [b + 1, c], in either order, leave the dates that
\* one call over [a, c] leaves; and a monthly rule never has two occurrences
\* in one calendar month, whatever calls were made.
C28_SplitWindow ==
    /\ \A s \in SplitsOf(event[1]) :
           ( /\ last.op = "generate"
             /\ last.ev = 1
             /\ \/ /\ last.before = FromNoRows(s[1], s[2])
                    /\ last.rs = s[2] + 1 /\ last.re = s[3]
                \/ /\ last.before = FromNoRows(s[2] + 1, s[3])
                    /\ last.rs = s[1] /\ last.re = s[2] )
           => DatesOf(rows, 1) = DatesOf(FromNoRows(s[1], s[3]), 1)
    /\ event[1].recurrence_pattern = "monthly" =>
           \A r1, r2 \in Occurrences(rows, 1) :
               MonthOf(r1.occurrence_date) = MonthOf(r2.occurrence_date)
                  => r1.occurrence_date = r2.occurrence_date

\* the first half of C28 for the rules that are not monthly
C28_SplitWindowNotMonthly ==
    event[1].recurrence_pattern # "monthly" =>
        \A s \in SplitsOf(event[1]) :
           ( /\ last.op = "generate"
             /\ last.ev = 1
             /\ \/ /\ last.before = FromNoRows(s[1], s[2])
                    /\ last.rs = s[2] + 1 /\ last.re = s[3]
                \/ /\ last.before = FromNoRows(s[2] + 1, s[3])
                    /\ last.rs = s[1] /\ last.re = s[2] )
           => DatesOf(rows, 1) = DatesOf(FromNoRows(s[1], s[3]), 1)

-----------------------------------------------------------------------------
(* Properties of verify_totp *)

SixAsciiDigits(token) ==
    Len(token) = 6 /\ \A i \in 1 .. Len(token) : token[i] \in AsciiDigits

\* C15: with a non-empty secret and c = floor(time / 30), verify_totp(token,
\* valid_window=w) returns True exactly when the token is the code of some
\* counter c+k with -w <= k <= w; with an empty secret it returns False.
C15_AcceptsExactlyWindow ==
    resp.op = "verify_totp"
    => IF resp.before.secret = "" THEN ~resp.result
       ELSE resp.result <=>
               \E k \in (0 - resp.window) .. resp.window :
                  resp.token =
                     totp_code_for_counter(resp.before, (resp.at \div 30) + k)

\* C16: verify_totp returns False for every token that is not exactly six
\* ASCII digits, and computes no HMAC for it.
C16_RejectsMalformed ==
    (resp.op = "verify_totp" /\ ~SixAsciiDigits(resp.token))
    => (~resp.result /\ resp.hmacs = {})

\* C17: a submission that fails is answered the same way whatever was wrong
\* with it: enroll_view and verify_view answer a code of the wrong length, a
\* code with a non-digit and a well-formed wrong code with the "invalid code"
\* message and nothing else.
C17_UniformRejection ==
    (/\ resp.op \in {"enroll_view", "verify_view"}
     /\ resp.method = "POST"
     /\ resp.status = "render")
    => (resp.messages = {InvalidCode} /\ resp.form_errors = {})

\* C18: a code verify_totp accepted is accepted again whenever it is
\* submitted while its counter is within one period of the clock, in the
\* same session or in another.
C18_NoReplayState ==
    (resp.called /\ resp.replay) => resp.result

\* a code accepted in one session was accepted again, later, in the other
C18_Witness ==
    /\ resp.op = "verify_view" /\ resp.called /\ resp.replay /\ resp.result
    /\ \E a \in accepted :
          /\ a.token = strip(resp.token)
          /\ a.session # resp.session
          /\ a.at < resp.at

\* C19: verify_totp changes the row only when it accepts, and then only
\* last_verified_at (with the auto_now updated_at): secret, is_enrolled and
\* enrolled_at stay; on a rejection the row is as it was.
C19_OnlyStampOnAccept ==
    resp.op = "verify_totp"
    => IF resp.result
       THEN /\ profile.last_verified_at = resp.at
            /\ profile.secret = resp.before.secret
            /\ profile.is_enrolled = resp.before.is_enrolled
            /\ profile.enrolled_at = resp.before.enrolled_at
       ELSE profile = resp.before

\* an enrolled profile verified before: one call accepted at a later time
C19_Witness ==
    /\ resp.op = "verify_totp" /\ resp.result
    /\ resp.before.is_enrolled
    /\ resp.before.last_verified_at # None
    /\ resp.before.last_verified_at < resp.at

\* a call rejected a well-formed code on such a profile
C19_WitnessReject ==
    /\ resp.op = "verify_totp" /\ ~resp.result
    /\ SixAsciiDigits(resp.token)
    /\ resp.before.last_verified_at # None
    /\ resp.before.last_verified_at < resp.at

-----------------------------------------------------------------------------
(* Properties of the middleware and of the MFA views *)

\* the last operation was a request of a logged-in user to a path that is
\* not exempt
Gated ==
    /\ resp.op = "request"
    /\ session[resp.session].authenticated
    /\ ~Exempt(resp.path)

\* C24: a request of a logged-in user to a path that is not exempt reaches
\* the view only with the profile enrolled, require_password_change false
\* and mfa_verified true in the session; otherwise it is redirected: to the
\* password change while the flag stands, else to the enrolment while the
\* profile is not enrolled, else to the verification.
C24_GateOrder ==
    Gated =>
        LET verified == session[resp.session].mfa_verified
        IN  /\ resp.status = "view" =>
                  /\ profile.is_enrolled
                  /\ ~profile.require_password_change
                  /\ verified
            /\ profile.require_password_change =>
                  resp.status = "redirect_password_change"
            /\ (~profile.require_password_change /\ ~profile.is_enrolled) =>
                  resp.status = "redirect_enroll"
            /\ (~profile.require_password_change /\ profile.is_enrolled
                  /\ ~verified) =>
                  resp.status = "redirect_verify"

\* a request to the admin index was served to a session that had a code
\* accepted
C24_Witness ==
    /\ Gated
    /\ resp.path = AdminIndex
    /\ resp.status = "view"
    /\ session[resp.session].mfa_verified

\* a request was sent to the enrolment although the session had a code
\* accepted, and one to the verification
C24_WitnessRedirect ==
    /\ Gated
    /\ \/ /\ resp.status = "redirect_enroll"
          /\ session[resp.session].mfa_verified
       \/ resp.status = "redirect_verify"

\* C22: while require_password_change is set, a request of the user to a
\* path that is not exempt is redirected to the password change, and so does
\* not reach the view, as long as the password of the user is the one the
\* user had when the flag was set.
C22_PasswordChangeEnforced ==
    ( /\ Gated
      /\ resp.before.require_password_change
      /\ user.password = hist.flag_password )
    => resp.status = "redirect_password_change"

\* what is left of C22 when the flag is the one the signal set at the
\* creation of the user, whose snapshot is the password of that moment
C22_FirstLoginEnforced ==
    ( /\ Gated
      /\ resp.before.require_password_change
      /\ resp.before.password_hash_snapshot = hist.flag_password
      /\ user.password = hist.flag_password )
    => resp.status = "redirect_password_change"

\* C27: when require_password_change is set and the user has changed the
\* password since, a request to a path that is not exempt clears the flag
\* and is not sent to the password change, however the profile was made.
C27_FlagClearedAfterChange ==
    ( /\ Gated
      /\ resp.before.require_password_change
      /\ user.password # hist.flag_password )
    => /\ ~profile.require_password_change
       /\ resp.status # "redirect_password_change"

\* what is left of C27 for a profile that has a snapshot of the password
C27_ClearedWithSnapshot ==
    ( /\ Gated
      /\ resp.before.require_password_change
      /\ resp.before.password_hash_snapshot # NoPassword
      /\ user.password # hist.flag_password )
    => /\ ~profile.require_password_change
       /\ resp.status # "redirect_password_change"

\* the last operation was enroll_view answering with its page, which
\* carries the provisioning URI and the QR code of the secret
SecretRendered ==
    /\ resp.op = "enroll_view"
    /\ resp.status = "render"

\* C25: the secret of an enrolled user is rendered only to a session whose
\* mfa_verified is true, so that a session that is logged in with the
\* password alone has no code of the secret accepted.
C25_SecretOnlyToVerified ==
    (SecretRendered /\ resp.before.is_enrolled)
       => session[resp.session].mfa_verified

\* C29: while the user is not enrolled, the code a session submits to
\* enroll_view is verified against the secret that was shown to that
\* session, also when the enrolment page is open in two sessions.
C29_VerifiedAgainstShown ==
    ( /\ resp.op = "enroll_view"
      /\ resp.called
      /\ ~resp.before.is_enrolled
      /\ resp.shown # "" )
    => resp.secret = resp.shown

\* what is left of C29: a session that has the key of the enrolment does
\* not rotate the secret again
C29_OneRotationPerSession ==
    ( /\ resp.op = "enroll_view"
      /\ ~resp.before.is_enrolled
      /\ resp.shown # ""
      /\ resp.before.secret # "" )
    => (resp.called => resp.secret = resp.before.secret)

\* C26: mfa_verified of a session becomes true only in enroll_view or
\* verify_view of that session, when verify_totp accepted the code; a login
\* leaves it false and a logout takes it away; and a request to a path that
\* is not exempt is served only to a session that had a code accepted since
\* its login.
C26_VerifiedOnlyByCode ==
    /\ [][\A s \in Sessions :
             (~session[s].mfa_verified /\ session'[s].mfa_verified)
                => /\ resp'.op \in {"enroll_view", "verify_view"}
                   /\ resp'.session = s
                   /\ resp'.called /\ resp'.result
                   /\ session[s].authenticated
         ]_vars
    /\ [](resp.op \in {"login", "logout"}
             => ~session[resp.session].mfa_verified)
    /\ [](resp.op = "logout" => session[resp.session] = AnonymousSession)
    /\ []((Gated /\ resp.status = "view") => hist.proved[resp.session])

\* a session logged in, had a code accepted by verify_view and was then
\* served the admin index
C26_Witness ==
    /\ Gated
    /\ resp.status = "view"
    /\ resp.n = 2
    /\ \E a \in accepted : a.session = resp.session

\* a session that had a code accepted logged in again
C26_WitnessLogin ==
    /\ resp.op = "login"
    /\ \E a \in accepted : a.session = resp.session
    /\ ~session[resp.session].mfa_verified

\* the codes of a secret that verify_totp compares with at the time of the
\* last operation
CodesInWindow(secret) ==
    CodesOf(secret, ((resp.at \div 30) - 1) .. ((resp.at \div 30) + 1))

C23_WitnessEnrolled ==
    /\ hist.ever_forced /\ ~hist.forced
    /\ resp.op = "enroll_view" /\ resp.result
    /\ profile.is_enrolled

\* after the action a code of the secret it removed was rejected
C23_WitnessOldCode ==
    /\ hist.ever_forced
    /\ hist.forced_secret # ""
    /\ resp.called /\ ~resp.result
    /\ resp.secret \notin {"", hist.forced_secret}
    /\ resp.token \in CodesInWindow(hist.forced_secret)

-----------------------------------------------------------------------------
(* Properties of Donation.save *)

\* C30: a donation saved without a receipt number is stored, with a receipt
\* number that no other stored donation has, also when two donations are
\* saved within one second of the clock, one after the other or at once; a
\* donation saved with a receipt number keeps it on every save.
C30_ReceiptAssigned ==
    /\ \A p \in Procs :
           saving[p].given = Blank => saving[p].pc # "IntegrityError"
    /\ \A d1, d2 \in donations :
           d1.id # d2.id => d1.receipt_number # d2.receipt_number
    /\ \A p \in Procs :
           saving[p].pc = "saved" =>
              /\ [id |-> saving[p].id,
                  receipt_number |-> saving[p].receipt_number] \in donations
              /\ saving[p].receipt_number # Blank
              /\ saving[p].given # Blank =>
                     saving[p].receipt_number = saving[p].given

\* what is left of C30 when a save may be refused: the stored receipt
\* numbers differ, and a receipt number given or assigned is kept
C30_StoredReceiptsDiffer ==
    /\ \A d1, d2 \in donations :
           d1.id # d2.id => d1.receipt_number # d2.receipt_number
    /\ \A p \in Procs :
           saving[p].pc = "saved" =>
              /\ [id |-> saving[p].id,
                  receipt_number |-> saving[p].receipt_number] \in donations
              /\ saving[p].receipt_number # Blank
              /\ saving[p].given # Blank =>
                     saving[p].receipt_number = saving[p].given

=============================================================================
